---- MODULE Spec2Model ----
(***************************************************************************)
(* Model of the assignment engine of JUNE:                                 *)
(*   june/distributors/care_home_distributor.py  (CareHomeDistributor)     *)
(*   june/distributors/school_distributor.py     (SchoolDistributor)       *)
(* Spec     : CareHomeDistributor.populate_care_homes_in_super_areas       *)
(* SpecKids : SchoolDistributor.distribute_kids_to_school                  *)
(***************************************************************************)
EXTENDS Integers, Sequences, FiniteSets, TLC

(***************************************************************************)
(* Bounds of the explored inputs.                                          *)
(***************************************************************************)
MaxTarget == 1
MaxCap == 2
MaxKids == 2
MaxPupils == 2
MaxNeighbours == 2
MaxCalls == 4
MaxRuns == 2
MaxWorkers == 2
MaxStaff == 2
MaxStations == 5
MaxMembers == 4
MaxTeachers == 2

(***************************************************************************)
(* Generic helpers on sequences.                                           *)
(***************************************************************************)
Range(s) == {s[k] : k \in DOMAIN s}

RECURSIVE SeqWithout(_, _)
\* list.remove(x): the list without the first occurrence of x
SeqWithout(s, x) ==
    IF s = <<>> THEN <<>>
    ELSE IF Head(s) = x THEN Tail(s)
    ELSE <<Head(s)>> \o SeqWithout(Tail(s), x)

\* all orderings of the sequence s (every element taken once)
Orderings(s) ==
    {[k \in DOMAIN s |-> s[p[k]]] :
        p \in {q \in [DOMAIN s -> DOMAIN s] : \A a, b \in DOMAIN s : a # b => q[a] # q[b]}}

(***************************************************************************)
(* Age-band labels are strings "low-high"; a string is modelled as the     *)
(* sequence of its characters.                                             *)
(***************************************************************************)
DigitChars == <<"0", "1", "2", "3", "4", "5", "6", "7", "8", "9">>

\* code point of a character, the order numpy compares strings by
CharCode(c) ==
    IF c = "-" THEN 45
    ELSE 47 + (CHOOSE d \in DOMAIN DigitChars : DigitChars[d] = c)

RECURSIVE Str(_)
\* str(n) for n >= 0
Str(n) == IF n < 10 THEN <<DigitChars[n + 1]>>
          ELSE Str(n \div 10) \o <<DigitChars[(n % 10) + 1]>>

\* the label f"{low}-{high}"
Label(low, high) == Str(low) \o <<"-">> \o Str(high)

\* int(s) for a string of digits
IntOf(s) ==
    LET value[k \in 0..Len(s)] ==
            IF k = 0 THEN 0 ELSE 10 * value[k - 1] + (CharCode(s[k]) - 48)
    IN value[Len(s)]

\* s.split(sep): the pieces of s between the occurrences of sep
Split(s, sep) ==
    LET seps == {k \in DOMAIN s : s[k] = sep}
        n_parts == Cardinality(seps) + 1
        cut(n) == IF n = 0 THEN 0
                  ELSE IF n = n_parts THEN Len(s) + 1
                  ELSE CHOOSE k \in seps : Cardinality({m \in seps : m < k}) = n - 1
    IN [n \in 1..n_parts |-> SubSeq(s, cut(n - 1) + 1, cut(n) - 1)]

\* age1, age2 = list(map(int, age_range.split("-")))
ParseRange(label) ==
    LET parts == Split(label, "-") IN <<IntOf(parts[1]), IntOf(parts[2])>>

(***************************************************************************)
(* The world the distributor is run on (built before the engine runs).     *)
(* Super area "A" has areas 1 and 2, each with a care home; super area "B" *)
(* has area 3 with a care home and area 4 without one; super area "C" has  *)
(* no area; super area "D" has area 5, with a care home and nobody living  *)
(* in it.                                                                  *)
(***************************************************************************)
AreasOf(name) ==
    IF name = "A" THEN <<1, 2>>
    ELSE IF name = "B" THEN <<3, 4>>
    ELSE IF name = "D" THEN <<5>>
    ELSE <<>>
\* areas whose care_home is not None
CareHomeAreas == {1, 2, 3, 5}

\* person -> <<area of residence, sex, age>>
Roster == <<
    <<1, "m", 72>>, <<1, "m", 76>>, <<1, "f", 81>>,
    <<2, "m", 80>>, <<2, "f", 74>>, <<2, "f", 79>>,
    <<3, "m", 82>>, <<3, "m", 85>>, <<3, "f", 71>>, <<3, "f", 73>>, <<3, "f", 90>>,
    <<4, "m", 80>> >>
AreaOfPerson(p) == Roster[p][1]
Sex(p) == Roster[p][2]
Age(p) == Roster[p][3]

RECURSIVE PeopleFrom(_, _)
PeopleFrom(a, p) ==
    IF p > Len(Roster) THEN <<>>
    ELSE (IF AreaOfPerson(p) = a THEN <<p>> ELSE <<>>) \o PeopleFrom(a, p + 1)
\* area.people
PeopleOf(a) == PeopleFrom(a, 1)

\* a target table of one super area is an ordered dict label -> count:
\* keys is the insertion order of the labels, count the value of each
KeyLists == {
    <<Label(70, 74), Label(75, 79)>>,
    <<Label(80, 89), Label(100, 109)>> }
Tables == UNION {{[keys |-> ks, count |-> c] : c \in [Range(ks) -> 0..MaxTarget]} : ks \in KeyLists}
ScenarioMen == [keys |-> <<Label(80, 89)>>, count |-> (Label(80, 89) :> 2)]
ScenarioWomen == [keys |-> <<Label(70, 79)>>, count |-> (Label(70, 79) :> 2)]
\* the tables a distributor can be built with: "B" always has its row,
\* "A" has any table of Tables or no row at all
TablesBySuperArea(rowB) ==
    {("B" :> rowB)} \cup {("A" :> t) @@ ("B" :> rowB) : t \in Tables}

(***************************************************************************)
(* State of CareHomeDistributor.populate_care_homes_in_super_areas.        *)
(***************************************************************************)
VARIABLES
    super_areas,                  \* the argument: sequence of super area names
    communal_men_by_super_area,   \* self.communal_men_by_super_area
    communal_women_by_super_area, \* self.communal_women_by_super_area
    n_residents,                  \* care_home.n_residents, by area of the care home
    people_by_area,               \* area.people, by area
    residents,                    \* care_home.residents, by area of the care home
    pc,                           \* position in the method
    sa_idx,                       \* position of the loop over super_areas
    communal_men_sorted,          \* working copy of the men's targets
    communal_women_sorted,        \* working copy of the women's targets
    areas_with_care_homes,        \* shuffled list of areas
    areas_dicts,                  \* per entry of areas_with_care_homes: <<men_by_age, women_by_age>>
    phase,                        \* "m": men's loop, "f": women's loop
    men_left, women_left,         \* loop flags
    i, j,                         \* positions of the loops over areas and over age ranges
    total_care_home_residents,
    assigned_in_pass,             \* history: assignments made by the current pass
    passes,                       \* history: complete passes of the current while loop
    processed,                    \* history: positions of super_areas whose two loops have ended
    runs                          \* history: calls of the method made so far

(***************************************************************************)
(* State of SchoolDistributor.distribute_kids_to_school.                   *)
(***************************************************************************)
VARIABLES
    area_people,              \* the argument: per area, the ages of area.people in list order
    school_order,             \* per area, the schools by ascending distance from the area
    neighbour_schools,        \* self.neighbour_schools
    n_pupils_max,             \* school.n_pupils_max, by school
    students,                 \* the students of each school, in the order they were added
    age_structure,            \* school.age_structure, by school and age
    kpc,                      \* position in distribute_kids_to_school
    area_idx,                 \* position of the loop over areas
    person_idx,               \* position of the loop over area.people
    closest_schools_by_age,   \* candidate schools of the current area, by age group
    is_school_full,           \* memo of the current area, by age group
    school                    \* the local variable school of the running method, 0 while unbound

(***************************************************************************)
(* State of a run of direct calls of _find_person_in_age_range on one pool.*)
(***************************************************************************)
VARIABLES
    pool_by_age,              \* the argument people_by_age: the pool, age -> people
    returned,                 \* the value the last call returned, 0 for None
    calls                     \* history: <<age_1, age_2, returned value>> of every call

(***************************************************************************)
(* State of CareHomeDistributor.distribute_workers_to_care_homes.          *)
(***************************************************************************)
VARIABLES
    workers_sector,           \* self.workers_sector
    staffed_super_areas,      \* the argument: sequence of super area names
    super_area_workers,       \* super_area.workers, by super area name
    n_workers,                \* care_home.n_workers, by area of the care home
    workers,                  \* care_home.workers, by area of the care home
    primary_activity,         \* the primary activity subgroup of each worker: <<>> for None,
                              \* else <<kind of group, area of the group>>
    lockdown_status,          \* person.lockdown_status of the workers
    wpc,                      \* position in the method
    w_idx,                    \* position of the loop over super_areas
    care_homes,               \* the list care_homes of the current super area
    h_idx,                    \* position of the loop over care_homes
    carers                    \* the list carers of the current super area

(***************************************************************************)
(* State of the id generators of SuperStation and Station.                 *)
(***************************************************************************)
VARIABLES
    id_generators,            \* the counters: <<class that holds the dict, key>> -> next value
    created,                  \* history: <<class, id>> of every instance, in creation order
    members,                  \* ids of the stations the last for_super_station returned
    collections,              \* the Stations objects: members and _ball_tree of each
    last_add,                 \* history: operands of the last a + b and their members before it
    closest                   \* outcome of the last get_closest_station

(***************************************************************************)
(* State of SchoolDistributor.distribute_teachers_to_school.               *)
(***************************************************************************)
VARIABLES
    education_sector_label,   \* self.education_sector_label, a tagged Python value
    msoarea_workers,          \* msoarea.workers: records of sector and sub_sector
    tpc,                      \* position in the method
    teachers,                 \* the list teachers: positions in msoarea.workers
    areas_rnd_arr,            \* the random area index of every teacher
    t_idx,                    \* position of the loop over teachers
    school_teachers,          \* the teacher subgroup of every school
    n_teachers                \* school.n_teachers of every school

dvars == <<pool_by_age, returned, calls>>

svars == <<id_generators, created, members, collections, last_add, closest>>

tvars == <<education_sector_label, msoarea_workers, tpc, teachers, areas_rnd_arr, t_idx,
           school_teachers, n_teachers>>

wvars == <<workers_sector, staffed_super_areas, super_area_workers, n_workers, workers,
           primary_activity, lockdown_status, wpc, w_idx, care_homes, h_idx, carers>>

kvars == <<area_people, school_order, neighbour_schools, n_pupils_max, students, age_structure,
           kpc, area_idx, person_idx, closest_schools_by_age, is_school_full, school>>

cvars == <<super_areas, communal_men_by_super_area, communal_women_by_super_area,
           n_residents, people_by_area, residents, pc, sa_idx, communal_men_sorted, communal_women_sorted,
           areas_with_care_homes, areas_dicts, phase, men_left, women_left, i, j,
           total_care_home_residents, assigned_in_pass, passes, processed, runs>>
vars == <<cvars, kvars, dvars, wvars, svars, tvars>>
\* the variables each method leaves alone
not_care == <<kvars, dvars, wvars, svars, tvars>>
not_kids == <<cvars, dvars, wvars, svars, tvars>>
not_draw == <<cvars, kvars, wvars, svars, tvars>>
not_workers == <<cvars, kvars, dvars, svars, tvars>>
not_stations == <<cvars, kvars, dvars, wvars, tvars>>
not_teachers == <<cvars, kvars, dvars, wvars, svars>>

\* no station is created
StationsIdle ==
    /\ id_generators = <<>>
    /\ created = <<>>
    /\ members = <<>>
    /\ collections = <<>>
    /\ last_add = <<>>
    /\ closest = <<>>

\* distribute_teachers_to_school is not run
TeachersIdle ==
    /\ education_sector_label = <<>>
    /\ msoarea_workers = <<>>
    /\ tpc = "idle"
    /\ teachers = <<>>
    /\ areas_rnd_arr = <<>>
    /\ t_idx = 1
    /\ school_teachers = <<>>
    /\ n_teachers = <<>>

inputs == <<super_areas, communal_men_by_super_area, communal_women_by_super_area, n_residents,
            people_by_area>>

NoTable == [keys |-> <<>>, count |-> <<>>]

\* the values of the care-home state while populate_care_homes_in_super_areas is not run
CareIdle ==
    /\ super_areas = <<>>
    /\ communal_men_by_super_area = <<>>
    /\ communal_women_by_super_area = <<>>
    /\ n_residents = <<>>
    /\ people_by_area = <<>>
    /\ residents = [a \in CareHomeAreas |-> <<>>]
    /\ pc = "idle"
    /\ sa_idx = 1
    /\ communal_men_sorted = NoTable
    /\ communal_women_sorted = NoTable
    /\ areas_with_care_homes = <<>>
    /\ areas_dicts = <<>>
    /\ phase = "m"
    /\ men_left = FALSE
    /\ women_left = FALSE
    /\ i = 1
    /\ j = 1
    /\ total_care_home_residents = 0
    /\ assigned_in_pass = 0
    /\ passes = 0
    /\ processed = {}
    /\ runs = 0

\* the state in which the method is entered: every care home is empty
CareStart ==
    /\ people_by_area = [a \in 1..5 |-> PeopleOf(a)]
    /\ residents = [a \in CareHomeAreas |-> <<>>]
    /\ pc = "for_super_area"
    /\ sa_idx = 1
    /\ communal_men_sorted = NoTable
    /\ communal_women_sorted = NoTable
    /\ areas_with_care_homes = <<>>
    /\ areas_dicts = <<>>
    /\ phase = "m"
    /\ men_left = FALSE
    /\ women_left = FALSE
    /\ i = 1
    /\ j = 1
    /\ total_care_home_residents = 0
    /\ assigned_in_pass = 0
    /\ passes = 0
    /\ processed = {}
    /\ runs = 1

InitCare ==
    /\ super_areas \in {<<"A">>, <<"B">>, <<"A", "B">>, <<"B", "A">>}
    /\ communal_men_by_super_area \in TablesBySuperArea(ScenarioMen)
    /\ communal_women_by_super_area \in TablesBySuperArea(ScenarioWomen)
    /\ n_residents \in {(1 :> c1) @@ (2 :> c2) @@ (3 :> 3) @@ (5 :> 1) : c1, c2 \in 1..MaxCap}
    /\ CareStart

(***************************************************************************)
(* _create_people_dicts and _find_person_in_age_range.                     *)
(***************************************************************************)
\* one of the two defaultdict(list) of _create_people_dicts: age -> people
PeopleByAge(a, men) ==
    LET ps == SelectSeq(PeopleOf(a), LAMBDA p : (Sex(p) = "m") = men)
    IN [age \in {Age(p) : p \in Range(ps)} |-> SelectSeq(ps, LAMBDA p : Age(p) = age)]

\* variant: the dictionaries are built from the people of another area
CreatePeopleDictsElsewhere(a) ==
    <<PeopleByAge(IF a = 1 THEN 2 ELSE 1, TRUE), PeopleByAge(IF a = 1 THEN 2 ELSE 1, FALSE)>>

CreatePeopleDicts(a) == <<PeopleByAge(a, TRUE), PeopleByAge(a, FALSE)>>

\* reading people_by_age[age] for every age of the range: a defaultdict
\* creates an empty list for each age it does not hold
ReadRange(people_by_age, age_1, age_2) ==
    [age \in (DOMAIN people_by_age) \cup (age_1..age_2) |->
        IF age \in DOMAIN people_by_age THEN people_by_age[age] ELSE <<>>]

\* variant: the loop runs over range(age_1, age_2)
AvailablePeopleBelow(people_by_age, age_1, age_2) ==
    LET upto[age \in (age_1 - 1)..(age_2 - 1)] ==
            IF age < age_1 THEN <<>>
            ELSE upto[age - 1]
                 \o (IF age \in DOMAIN people_by_age THEN people_by_age[age] ELSE <<>>)
    IN upto[age_2 - 1]

\* available_people after the loop over range(age_1, age_2 + 1)
AvailablePeople(people_by_age, age_1, age_2) ==
    LET upto[age \in (age_1 - 1)..age_2] ==
            IF age < age_1 THEN <<>>
            ELSE upto[age - 1]
                 \o (IF age \in DOMAIN people_by_age THEN people_by_age[age] ELSE <<>>)
    IN upto[age_2]

\* variant: the chosen person is not taken out of the pool
RemoveChosenKept(people_by_age, chosen) == people_by_age

\* variant: the youngest person of the pool is removed instead of the chosen one
RemoveYoungest(people_by_age, chosen) ==
    LET ages == {age \in DOMAIN people_by_age : people_by_age[age] # <<>>}
        youngest == CHOOSE age \in ages : \A other \in ages : age <= other
        rest == Tail(people_by_age[youngest])
    IN IF rest = <<>>
       THEN [age \in (DOMAIN people_by_age) \ {youngest} |-> people_by_age[age]]
       ELSE [people_by_age EXCEPT ![youngest] = rest]

\* people_by_age[chosen.age].remove(chosen), and del of the list when empty
RemoveChosen(people_by_age, chosen) ==
    LET rest == SeqWithout(people_by_age[Age(chosen)], chosen)
    IN IF rest = <<>>
       THEN [age \in (DOMAIN people_by_age) \ {Age(chosen)} |-> people_by_age[age]]
       ELSE [people_by_age EXCEPT ![Age(chosen)] = rest]

(***************************************************************************)
(* populate_care_homes_in_super_areas.                                     *)
(***************************************************************************)
\* age_range[0]: the first character of the label
SortKey(label) == CharCode(label[1])

\* keys[np.argsort(ages)[::-1]]: the keys by descending sort key; numpy's
\* default sort is not stable, keys with equal sort keys come in any order
SortedOrders(keys) ==
    {s \in Orderings(keys) :
        \A k \in 1..(Len(s) - 1) : SortKey(s[k]) >= SortKey(s[k + 1])}

\* variant: the vacancy test admits a full care home
HasVacancyOrFull(a) == Len(residents[a]) <= n_residents[a]

\* variant: a care home is entered only with room for two
HasVacancyForTwo(a) == Len(residents[a]) + 1 < n_residents[a]

\* len(care_home.residents) < care_home.n_residents
HasVacancy(a) == Len(residents[a]) < n_residents[a]

\* variant: no target counts as used up
TargetSpentNever(count) == FALSE

\* variant: only a negative target counts as used up
TargetSpentBelowZero(count) == count < 0

\* communal_men_sorted[age_range] <= 0
TargetSpent(count) == count <= 0

\* variant: the flag is not cleared at the top of the while body
ResetFlagKept(flag) == flag

\* men_left = False at the top of the while body
ResetFlag(flag) == FALSE

SuperAreaName == super_areas[sa_idx]
CurrentSorted == IF phase = "m" THEN communal_men_sorted ELSE communal_women_sorted
CurrentArea == areas_with_care_homes[i]
CurrentLabel == CurrentSorted.keys[j]
\* variant: the pool of the other sex is drawn from
CurrentPoolOfOthers == areas_dicts[i][IF phase = "m" THEN 2 ELSE 1]

\* areas_dicts[i][0] in the men's loop, areas_dicts[i][1] in the women's
CurrentPool == areas_dicts[i][IF phase = "m" THEN 1 ELSE 2]

SetPool(pool) ==
    areas_dicts' = [areas_dicts EXCEPT ![i][IF phase = "m" THEN 1 ELSE 2] = pool]

\* variant: the women's row is looked up only after men have been placed
RaiseKeyErrorLate ==
    /\ pc = "for_super_area"
    /\ sa_idx <= Len(super_areas)
    /\ \/ SuperAreaName \notin DOMAIN communal_men_by_super_area
       \/ SuperAreaName \notin DOMAIN communal_women_by_super_area
    /\ IF SuperAreaName \in DOMAIN communal_men_by_super_area
       THEN \E a \in Range(AreasOf(SuperAreaName)) \cap CareHomeAreas :
            \E p \in {q \in Range(PeopleOf(a)) : Sex(q) = "m"} :
               /\ residents' = [residents EXCEPT ![a] = Append(@, p)]
               /\ total_care_home_residents' = total_care_home_residents + 1
       ELSE UNCHANGED <<residents, total_care_home_residents>>
    /\ pc' = "error"
    /\ UNCHANGED <<not_care, inputs, runs, sa_idx, communal_men_sorted, communal_women_sorted,
                   areas_with_care_homes, areas_dicts, phase, men_left, women_left, i, j,
                   assigned_in_pass, passes, processed>>

\* lines 107-110: a super area name without a row raises KeyError, which
\* nothing catches
RaiseKeyError ==
    /\ pc = "for_super_area"
    /\ sa_idx <= Len(super_areas)
    /\ \/ SuperAreaName \notin DOMAIN communal_men_by_super_area
       \/ SuperAreaName \notin DOMAIN communal_women_by_super_area
    /\ pc' = "error"
    /\ UNCHANGED <<not_care, inputs, runs, residents, sa_idx, communal_men_sorted, communal_women_sorted,
                   areas_with_care_homes, areas_dicts, phase, men_left, women_left, i, j,
                   total_care_home_residents, assigned_in_pass, passes, processed>>

\* lines 106-136: look the targets up, sort them, shuffle the areas, build the pools
SetupSuperArea ==
    /\ pc = "for_super_area"
    /\ sa_idx <= Len(super_areas)
    /\ SuperAreaName \in DOMAIN communal_men_by_super_area
    /\ SuperAreaName \in DOMAIN communal_women_by_super_area
    /\ LET men_communal_residents == communal_men_by_super_area[SuperAreaName]
           women_communal_residents == communal_women_by_super_area[SuperAreaName]
           with_care_homes == SelectSeq(AreasOf(SuperAreaName), LAMBDA a : a \in CareHomeAreas)
       IN /\ \E ks \in SortedOrders(men_communal_residents.keys) :
                communal_men_sorted' = [keys |-> ks, count |-> men_communal_residents.count]
          /\ \E ks \in SortedOrders(women_communal_residents.keys) :
                communal_women_sorted' = [keys |-> ks, count |-> women_communal_residents.count]
          /\ \E shuffled \in Orderings(with_care_homes) :
                /\ areas_with_care_homes' = shuffled
                /\ areas_dicts' = [k \in DOMAIN shuffled |-> CreatePeopleDicts(shuffled[k])]
    /\ phase' = "m"
    /\ men_left' = TRUE
    /\ pc' = "while"
    /\ assigned_in_pass' = 0
    /\ passes' = 0
    /\ UNCHANGED <<not_care, inputs, runs, residents, sa_idx, women_left, i, j,
                   total_care_home_residents, processed>>

\* lines 137-138 and 157-158: a new pass starts while the flag is set
StartPass ==
    /\ pc = "while"
    /\ IF phase = "m" THEN men_left ELSE women_left
    /\ IF phase = "m"
       THEN men_left' = ResetFlag(men_left) /\ UNCHANGED women_left
       ELSE women_left' = ResetFlag(women_left) /\ UNCHANGED men_left
    /\ i' = 1
    /\ assigned_in_pass' = 0
    /\ pc' = "for_area"
    /\ UNCHANGED <<not_care, inputs, runs, residents, sa_idx, communal_men_sorted, communal_women_sorted,
                   areas_with_care_homes, areas_dicts, phase, j,
                   total_care_home_residents, passes, processed>>

\* line 137 false: the men's loop is over, line 156 starts the women's
EndMen ==
    /\ pc = "while"
    /\ phase = "m"
    /\ ~men_left
    /\ phase' = "f"
    /\ women_left' = TRUE
    /\ assigned_in_pass' = 0
    /\ passes' = 0
    /\ UNCHANGED <<not_care, inputs, runs, residents, pc, sa_idx, communal_men_sorted, communal_women_sorted,
                   areas_with_care_homes, areas_dicts, men_left, i, j,
                   total_care_home_residents, processed>>

\* line 157 false: the women's loop is over, on to the next super area
EndWomen ==
    /\ pc = "while"
    /\ phase = "f"
    /\ ~women_left
    /\ sa_idx' = sa_idx + 1
    /\ processed' = processed \cup {sa_idx}
    /\ pc' = "for_super_area"
    /\ UNCHANGED <<not_care, inputs, runs, residents, communal_men_sorted, communal_women_sorted,
                   areas_with_care_homes, areas_dicts, phase, men_left, women_left, i, j,
                   total_care_home_residents, assigned_in_pass, passes>>

\* lines 139-141 and 159-161: next care home, entered only with a vacancy
ForArea ==
    /\ pc = "for_area"
    /\ i <= Len(areas_with_care_homes)
    /\ IF HasVacancy(CurrentArea)
       THEN j' = 1 /\ pc' = "for_band" /\ UNCHANGED i
       ELSE i' = i + 1 /\ UNCHANGED <<j, pc>>
    /\ UNCHANGED <<not_care, inputs, runs, residents, sa_idx, communal_men_sorted, communal_women_sorted,
                   areas_with_care_homes, areas_dicts, phase, men_left, women_left,
                   total_care_home_residents, assigned_in_pass, passes, processed>>

\* the for loop over the areas is exhausted: back to the while test
EndPass ==
    /\ pc = "for_area"
    /\ i > Len(areas_with_care_homes)
    /\ pc' = "while"
    /\ passes' = passes + 1
    /\ UNCHANGED <<not_care, inputs, runs, residents, sa_idx, communal_men_sorted, communal_women_sorted,
                   areas_with_care_homes, areas_dicts, phase, men_left, women_left, i, j,
                   total_care_home_residents, assigned_in_pass, processed>>

\* variant: after the last age range the same care home is taken again
EndBandsBack ==
    /\ pc = "for_band"
    /\ j > Len(CurrentSorted.keys)
    /\ i' = i
    /\ pc' = "for_area"
    /\ UNCHANGED <<not_care, inputs, runs, residents, sa_idx, communal_men_sorted, communal_women_sorted,
                   areas_with_care_homes, areas_dicts, phase, men_left, women_left, j,
                   total_care_home_residents, assigned_in_pass, passes, processed>>

\* the for loop over the age ranges is exhausted: next care home
EndBands ==
    /\ pc = "for_band"
    /\ j > Len(CurrentSorted.keys)
    /\ i' = i + 1
    /\ pc' = "for_area"
    /\ UNCHANGED <<not_care, inputs, runs, residents, sa_idx, communal_men_sorted, communal_women_sorted,
                   areas_with_care_homes, areas_dicts, phase, men_left, women_left, j,
                   total_care_home_residents, assigned_in_pass, passes, processed>>

\* lines 143-145 and 163-165: the target of this age range is used up
SkipBand ==
    /\ pc = "for_band"
    /\ j <= Len(CurrentSorted.keys)
    /\ TargetSpent(CurrentSorted.count[CurrentLabel])
    /\ j' = j + 1
    /\ UNCHANGED <<not_care, inputs, runs, residents, pc, sa_idx, communal_men_sorted, communal_women_sorted,
                   areas_with_care_homes, areas_dicts, phase, men_left, women_left, i,
                   total_care_home_residents, assigned_in_pass, passes, processed>>

\* lines 146-150 and 166-170: nobody of the area is in the age range
\* (values are bound with \E over a singleton so that they are computed once)
NobodyInBand ==
    /\ pc = "for_band"
    /\ j <= Len(CurrentSorted.keys)
    /\ ~TargetSpent(CurrentSorted.count[CurrentLabel])
    /\ \E ages \in {ParseRange(CurrentLabel)} :
       \E people_by_age \in {CurrentPool} :
          /\ AvailablePeople(people_by_age, ages[1], ages[2]) = <<>>
          /\ SetPool(ReadRange(people_by_age, ages[1], ages[2]))
    /\ j' = j + 1
    /\ UNCHANGED <<not_care, inputs, runs, residents, pc, sa_idx, communal_men_sorted, communal_women_sorted,
                   areas_with_care_homes, phase, men_left, women_left, i,
                   total_care_home_residents, assigned_in_pass, passes, processed>>

\* variant: the working table is the distributor's own row, a decrement
\* shows in it
DistributorTableShared(by_super_area, sex, label) ==
    IF phase = sex THEN [by_super_area EXCEPT ![SuperAreaName].count[label] = @ - 1]
    ELSE by_super_area

\* lines 121-125: the working table is a new OrderedDict that holds the
\* counts of the row, so the decrement of lines 153/173 leaves the
\* distributor's table as it is
DistributorTable(by_super_area, sex, label) == by_super_area

\* lines 146-154 and 166-174: draw a person of the age range and place them
AssignPerson ==
    /\ pc = "for_band"
    /\ j <= Len(CurrentSorted.keys)
    /\ ~TargetSpent(CurrentSorted.count[CurrentLabel])
    /\ \E ages \in {ParseRange(CurrentLabel)} :
       \E people_by_age \in {CurrentPool} :
       \E available_people \in {AvailablePeople(people_by_age, ages[1], ages[2])} :
       \E chosen_person_idx \in DOMAIN available_people :
       \E chosen_person \in {available_people[chosen_person_idx]} :
       \E read \in {ReadRange(people_by_age, ages[1], ages[2])} :
          /\ SetPool(RemoveChosen(read, chosen_person))
          /\ residents' = [residents EXCEPT ![CurrentArea] = Append(@, chosen_person)]
    /\ IF phase = "m"
       THEN /\ communal_men_sorted' = [communal_men_sorted EXCEPT !.count[CurrentLabel] = @ - 1]
            /\ men_left' = TRUE
            /\ UNCHANGED <<communal_women_sorted, women_left>>
       ELSE /\ communal_women_sorted' = [communal_women_sorted EXCEPT !.count[CurrentLabel] = @ - 1]
            /\ women_left' = TRUE
            /\ UNCHANGED <<communal_men_sorted, men_left>>
    /\ total_care_home_residents' = total_care_home_residents + 1
    /\ assigned_in_pass' = assigned_in_pass + 1
    /\ j' = j + 1
    /\ communal_men_by_super_area' = DistributorTable(communal_men_by_super_area, "m", CurrentLabel)
    /\ communal_women_by_super_area' = DistributorTable(communal_women_by_super_area, "f", CurrentLabel)
    /\ UNCHANGED <<not_care, super_areas, n_residents, people_by_area, runs, pc, sa_idx,
                   areas_with_care_homes, phase, i, passes, processed>>

\* lines 175-177: every super area has been handled
Finish ==
    /\ pc = "for_super_area"
    /\ sa_idx > Len(super_areas)
    /\ pc' = "done"
    /\ UNCHANGED <<not_care, inputs, runs, residents, sa_idx, communal_men_sorted, communal_women_sorted,
                   areas_with_care_homes, areas_dicts, phase, men_left, women_left, i, j,
                   total_care_home_residents, assigned_in_pass, passes, processed>>

\* the method is called once more on the same super areas
CallAgain ==
    /\ pc = "done"
    /\ runs < MaxRuns
    /\ runs' = runs + 1
    /\ pc' = "for_super_area"
    /\ sa_idx' = 1
    /\ total_care_home_residents' = 0
    /\ communal_men_sorted' = NoTable
    /\ communal_women_sorted' = NoTable
    /\ areas_with_care_homes' = <<>>
    /\ areas_dicts' = <<>>
    /\ phase' = "m"
    /\ men_left' = FALSE
    /\ women_left' = FALSE
    /\ i' = 1
    /\ j' = 1
    /\ assigned_in_pass' = 0
    /\ passes' = 0
    /\ processed' = {}
    /\ UNCHANGED <<not_care, inputs, residents>>

NextCare ==
    \/ RaiseKeyError
    \/ SetupSuperArea
    \/ StartPass
    \/ EndMen
    \/ EndWomen
    \/ ForArea
    \/ EndPass
    \/ EndBands
    \/ SkipBand
    \/ NobodyInBand
    \/ AssignPerson
    \/ Finish

(***************************************************************************)
(* _find_person_in_age_range called directly: a pool built by              *)
(* _create_people_dicts is drawn from, call after call, with the bounds of *)
(* an age-band label.                                                      *)
(***************************************************************************)
DrawLabels == {Label(70, 74), Label(75, 79), Label(80, 89), Label(70, 90)}

\* the people a pool holds
PoolPeople(pool) == UNION {Range(pool[age]) : age \in DOMAIN pool}
\* the number of entries of the lists of a pool
PoolSize(pool) == Cardinality(UNION {{<<age, k>> : k \in DOMAIN pool[age]} : age \in DOMAIN pool})

DrawIdle ==
    /\ pool_by_age = <<>>
    /\ returned = 0
    /\ calls = <<>>

\* variant: a single remaining person is not handed out
NoneAvailableButOne(available_people) == Len(available_people) <= 1

\* line 89: not available_people
NoneAvailable(available_people) == available_people = <<>>

\* lines 86-90: nobody of the pool is in the range, None is returned
ReturnNone ==
    /\ Len(calls) < MaxCalls
    /\ \E label \in DrawLabels :
       \E ages \in {ParseRange(label)} :
          /\ NoneAvailable(AvailablePeople(pool_by_age, ages[1], ages[2]))
          /\ pool_by_age' = ReadRange(pool_by_age, ages[1], ages[2])
          /\ returned' = 0
          /\ calls' = Append(calls, <<ages[1], ages[2], 0>>)
    /\ UNCHANGED not_draw

\* lines 86-96: a person of the range is chosen, removed and returned
ReturnChosen ==
    /\ Len(calls) < MaxCalls
    /\ \E label \in DrawLabels :
       \E ages \in {ParseRange(label)} :
       \E available_people \in {AvailablePeople(pool_by_age, ages[1], ages[2])} :
          /\ ~NoneAvailable(available_people)
          /\ \E chosen_person_idx \in DOMAIN available_people :
             \E chosen_person \in {available_people[chosen_person_idx]} :
                /\ pool_by_age' =
                      RemoveChosen(ReadRange(pool_by_age, ages[1], ages[2]), chosen_person)
                /\ returned' = chosen_person
                /\ calls' = Append(calls, <<ages[1], ages[2], chosen_person>>)
    /\ UNCHANGED not_draw

NextDraw ==
    \/ ReturnNone
    \/ ReturnChosen

(***************************************************************************)
(* CareHomeDistributor.distribute_workers_to_care_homes.                   *)
(* A worker is <<name of the super area, position in super_area.workers>>; *)
(* None is written "None".                                                 *)
(***************************************************************************)
Sectors == {"Q", "P"}
\* the workers a super area can have, as built before the distributor runs
WorkerKinds == {
    [sector |-> "Q", primary_activity |-> "None", sub_sector |-> "None"],
    [sector |-> "P", primary_activity |-> "None", sub_sector |-> "None"],
    [sector |-> "Q", primary_activity |-> "None", sub_sector |-> "nurse"],
    [sector |-> "Q", primary_activity |-> "company", sub_sector |-> "None"] }
WorkerLists == UNION {[1..n -> WorkerKinds] : n \in 0..MaxWorkers}
WorkersOf(name) == {<<name, k>> : k \in DOMAIN super_area_workers[name]}
AllWorkers == UNION {WorkersOf(name) : name \in DOMAIN super_area_workers}
Sector(person) == super_area_workers[person[1]][person[2]].sector
SubSector(person) == super_area_workers[person[1]][person[2]].sub_sector

WorkersIdle ==
    /\ workers_sector = "Q"
    /\ staffed_super_areas = <<>>
    /\ super_area_workers = <<>>
    /\ n_workers = <<>>
    /\ workers = <<>>
    /\ primary_activity = <<>>
    /\ lockdown_status = <<>>
    /\ wpc = "idle"
    /\ w_idx = 1
    /\ care_homes = <<>>
    /\ h_idx = 1
    /\ carers = <<>>

\* variant: a care home with all its workers still takes one
NeedsWorkerOrFull(a) == Len(workers[a]) <= n_workers[a]

\* line 199: len(care_home.workers) < care_home.n_workers
NeedsWorker(a) == Len(workers[a]) < n_workers[a]

\* lines 191-195: the test a worker passes to become a carer
IsCarer(person) ==
    /\ Sector(person) = "Q"
    /\ primary_activity[person] = <<>>
    /\ SubSector(person) = "None"

\* variant: the person is put among the workers, the person's own
\* reference is not set
AddWorkerOneSided(a, person) ==
    /\ workers' = [workers EXCEPT ![a] = Append(@, person)]
    /\ primary_activity' = primary_activity

\* care_home.add(person, subgroup_type=workers, activity="primary_activity"):
\* the person joins the workers subgroup, which becomes the person's
\* primary activity
AddWorker(a, person) ==
    /\ workers' = [workers EXCEPT ![a] = Append(@, person)]
    /\ primary_activity' = [primary_activity EXCEPT ![person] = <<"care_home", a>>]

\* variant: every worker of the world is flagged
KeyWorkerAll(carer) == [person \in DOMAIN lockdown_status |-> "key_worker"]

\* line 212: carer.lockdown_status = "key_worker"
KeyWorker(carer) == [lockdown_status EXCEPT ![carer] = "key_worker"]

StaffedSuperArea == staffed_super_areas[w_idx]
CurrentHome == care_homes[h_idx]
\* lines 181-187: the super area has no care home, continue
NoCareHomes ==
    /\ wpc = "for_super_area"
    /\ w_idx <= Len(staffed_super_areas)
    /\ SelectSeq(AreasOf(StaffedSuperArea), LAMBDA a : a \in CareHomeAreas) = <<>>
    /\ care_homes' = <<>>
    /\ w_idx' = w_idx + 1
    /\ UNCHANGED <<not_workers, workers_sector, staffed_super_areas, super_area_workers,
                   n_workers, workers, primary_activity, lockdown_status, wpc, h_idx, carers>>

\* lines 181-198: the care homes of the super area, and its carers, shuffled
CollectCarers ==
    /\ wpc = "for_super_area"
    /\ w_idx <= Len(staffed_super_areas)
    /\ care_homes' = SelectSeq(AreasOf(StaffedSuperArea), LAMBDA a : a \in CareHomeAreas)
    /\ care_homes' # <<>>
    /\ LET all == [k \in DOMAIN super_area_workers[StaffedSuperArea] |-> <<StaffedSuperArea, k>>]
       IN carers' \in Orderings(SelectSeq(all, IsCarer))
    /\ h_idx' = 1
    /\ wpc' = "while"
    /\ UNCHANGED <<not_workers, workers_sector, staffed_super_areas, super_area_workers,
                   n_workers, workers, primary_activity, lockdown_status, w_idx>>

\* lines 199-212: the last carer of the list is added to the care home
AddCarer ==
    /\ wpc = "while"
    /\ h_idx <= Len(care_homes)
    /\ NeedsWorker(CurrentHome)
    /\ carers # <<>>
    /\ LET carer == carers[Len(carers)]
       IN /\ carers' = SubSeq(carers, 1, Len(carers) - 1)
          /\ AddWorker(CurrentHome, carer)
          /\ lockdown_status' = KeyWorker(carer)
    /\ UNCHANGED <<not_workers, workers_sector, staffed_super_areas, super_area_workers,
                   n_workers, wpc, w_idx, care_homes, h_idx>>

\* lines 200-206: pop from the empty list raises, the except clause logs and
\* breaks out of the while loop
NotEnoughWorkers ==
    /\ wpc = "while"
    /\ h_idx <= Len(care_homes)
    /\ NeedsWorker(CurrentHome)
    /\ carers = <<>>
    /\ h_idx' = h_idx + 1
    /\ UNCHANGED <<not_workers, workers_sector, staffed_super_areas, super_area_workers,
                   n_workers, workers, primary_activity, lockdown_status, wpc, w_idx,
                   care_homes, carers>>

\* line 199 false: the care home has its workers, next care home
HomeStaffed ==
    /\ wpc = "while"
    /\ h_idx <= Len(care_homes)
    /\ ~NeedsWorker(CurrentHome)
    /\ h_idx' = h_idx + 1
    /\ UNCHANGED <<not_workers, workers_sector, staffed_super_areas, super_area_workers,
                   n_workers, workers, primary_activity, lockdown_status, wpc, w_idx,
                   care_homes, carers>>

\* line 198 exhausted: next super area
EndCareHomes ==
    /\ wpc = "while"
    /\ h_idx > Len(care_homes)
    /\ w_idx' = w_idx + 1
    /\ wpc' = "for_super_area"
    /\ UNCHANGED <<not_workers, workers_sector, staffed_super_areas, super_area_workers,
                   n_workers, workers, primary_activity, lockdown_status, care_homes,
                   h_idx, carers>>

\* line 180 exhausted
WorkersDone ==
    /\ wpc = "for_super_area"
    /\ w_idx > Len(staffed_super_areas)
    /\ wpc' = "done"
    /\ UNCHANGED <<not_workers, workers_sector, staffed_super_areas, super_area_workers,
                   n_workers, workers, primary_activity, lockdown_status, w_idx, care_homes,
                   h_idx, carers>>

NextWorkers ==
    \/ NoCareHomes
    \/ CollectCarers
    \/ AddCarer
    \/ NotEnoughWorkers
    \/ HomeStaffed
    \/ EndCareHomes
    \/ WorkersDone

(***************************************************************************)
(* SchoolDistributor.distribute_kids_to_school.                            *)
(* Two schools; two areas are distributed one after the other.             *)
(***************************************************************************)
\* defaults of __init__
school_age_range == <<0, 19>>
mandatory_school_age_range == <<5, 18>>

KidSchools == {1, 2}
\* school -> <<age_min, age_max>>
SchoolYears == << <<3, 7>>, <<0, 11>> >>
AgeMin(s) == SchoolYears[s][1]
AgeMax(s) == SchoolYears[s][2]
Admits(s, age) == AgeMin(s) <= age /\ age <= AgeMax(s)
\* the keys of schools.school_trees: the ages some school admits
SchoolTrees == {age \in school_age_range[1]..school_age_range[2] : \E s \in KidSchools : Admits(s, age)}

\* ages of the residents: 0 is the lower end of school_age_range, 3 is
\* optional, 5 is the lower end of mandatory_school_age_range (all three
\* admitted by a school), 12 is mandatory and admitted by no school
AgeChoices == {0, 3, 5, 12}
KidLists == UNION {[1..n -> AgeChoices] : n \in 0..MaxKids}

\* a person is <<position of the area, position in area.people>>
KidAge(person) == area_people[person[1]][person[2]]
CurrentKid == <<area_idx, person_idx>>

KidsIdle ==
    /\ area_people = <<>>
    /\ school_order = <<>>
    /\ neighbour_schools = 0
    /\ n_pupils_max = <<>>
    /\ students = <<>>
    /\ age_structure = <<>>
    /\ kpc = "idle"
    /\ area_idx = 1
    /\ person_idx = 1
    /\ closest_schools_by_age = <<>>
    /\ is_school_full = <<>>
    /\ school = 0

InitKids ==
    /\ CareIdle
    /\ DrawIdle
    /\ WorkersIdle
    /\ StationsIdle
    /\ TeachersIdle
    /\ area_people \in {<<first, second>> :
                             first \in {l \in KidLists : Len(l) < MaxKids}, second \in KidLists}
    /\ school_order \in {<<first, second>> :
                             first \in Orderings(<<1, 2>>),
                             second \in Orderings(<<1, 2>>) \cup {<<>>}}
    /\ neighbour_schools \in 1..MaxNeighbours
    /\ n_pupils_max \in [KidSchools -> 1..MaxPupils]
    /\ students = [s \in KidSchools |-> <<>>]
    /\ age_structure = [s \in KidSchools |-> [age \in AgeMin(s)..AgeMax(s) |-> 0]]
    /\ kpc = "for_area"
    /\ area_idx = 1
    /\ person_idx = 1
    /\ closest_schools_by_age = <<>>
    /\ is_school_full = <<>>
    /\ school = 0

\* schools.get_closest_schools(agegroup, area.coordinates, k): the k nearest
\* schools among those of the age group's tree
GetClosestSchools(agegroup, a, k) ==
    LET admitting == SelectSeq(school_order[a], LAMBDA s : Admits(s, agegroup))
    IN SubSeq(admitting, 1, IF k < Len(admitting) THEN k ELSE Len(admitting))

\* school.n_pupils
NPupils(s) == Len(students[s])

\* len(school.subgroups[yearindex].people): subgroup 1 + age - age_min holds
\* the students of that age
PupilsInYear(s, yearindex) ==
    Cardinality({k \in DOMAIN students[s] : 1 + KidAge(students[s][k]) - AgeMin(s) = yearindex})

\* school.add(person, school.SubgroupType.students)
AddStudent(s, person) == students' = [students EXCEPT ![s] = Append(@, person)]

\* the values of np.random.randint(0, min(len(candidates), neighbour_schools))
RandomNumbers(candidates) ==
    0..((IF Len(candidates) < neighbour_schools THEN Len(candidates) ELSE neighbour_schools) - 1)

\* line 164: the school has no vacancy
IsFull(s) == NPupils(s) >= n_pupils_max[s]

\* lines 209-213: the school has no vacancy, or its year of that age has
\* n_pupils_max / (age_max - age_min) pupils or more
IsFullForAge(s, age) ==
    \/ NPupils(s) >= n_pupils_max[s]
    \/ PupilsInYear(s, age - AgeMin(s) + 1) * (AgeMax(s) - AgeMin(s)) >= n_pupils_max[s]

RECURSIVE MandatoryScan(_, _, _, _)
\* lines 160-179, from iteration n on (n counts from 0 as in the code): the
\* possible <<school, is_school_full[person.age]>> when the loop is left
MandatoryScan(candidates, n, sch, full) ==
    IF n >= neighbour_schools THEN {<<sch, full>>}
    ELSE IF n >= Len(candidates) THEN {<<sch, full>>}
    ELSE IF IsFull(candidates[n + 1])
         THEN UNION {MandatoryScan(candidates, n + 1, candidates[random_number + 1], TRUE) :
                        random_number \in RandomNumbers(candidates)}
         ELSE {<<candidates[n + 1], full>>}

RECURSIVE NonMandatoryScan(_, _, _, _)
\* lines 203-216, from iteration n on: the school when the loop is left
NonMandatoryScan(candidates, n, sch, age) ==
    IF n >= neighbour_schools THEN sch
    ELSE IF n >= Len(candidates) THEN sch
    ELSE IF IsFullForAge(candidates[n + 1], age)
         THEN NonMandatoryScan(candidates, n + 1, candidates[n + 1], age)
         ELSE candidates[n + 1]

\* variant: the lower end of the mandatory range is left out
InMandatoryRangeAbove(age) ==
    age <= mandatory_school_age_range[2] /\ age > mandatory_school_age_range[1]

\* lines 143-146
InMandatoryRange(age) ==
    age <= mandatory_school_age_range[2] /\ age >= mandatory_school_age_range[1]

\* lines 191-198
InNonMandatoryRange(age) ==
    \/ school_age_range[1] < age /\ age < mandatory_school_age_range[1]
    \/ mandatory_school_age_range[2] < age /\ age < school_age_range[2]

\* lines 112-129: candidate schools and memo of the next area
StartArea ==
    /\ kpc = "for_area"
    /\ area_idx <= Len(area_people)
    /\ closest_schools_by_age' =
          [agegroup \in SchoolTrees |-> GetClosestSchools(agegroup, area_idx, neighbour_schools)]
    /\ is_school_full' = [agegroup \in SchoolTrees |-> FALSE]
    /\ kpc' = "mandatory"
    /\ person_idx' = 1
    /\ school' = 0
    /\ UNCHANGED <<not_kids, area_people, school_order, neighbour_schools, n_pupils_max,
                   students, age_structure, area_idx>>

\* lines 142-148: a person outside the mandatory range or without age group
MandatorySkip ==
    /\ kpc = "mandatory"
    /\ person_idx <= Len(area_people[area_idx])
    /\ \/ ~InMandatoryRange(KidAge(CurrentKid))
       \/ KidAge(CurrentKid) \notin DOMAIN is_school_full
    /\ person_idx' = person_idx + 1
    /\ UNCHANGED <<not_kids, area_people, school_order, neighbour_schools, n_pupils_max,
                   students, age_structure, kpc, area_idx, closest_schools_by_age,
                   is_school_full, school>>

\* lines 149-157 and 180: the memo says full, a random candidate is taken
MandatoryRandom ==
    /\ kpc = "mandatory"
    /\ person_idx <= Len(area_people[area_idx])
    /\ InMandatoryRange(KidAge(CurrentKid))
    /\ KidAge(CurrentKid) \in DOMAIN is_school_full
    /\ is_school_full[KidAge(CurrentKid)]
    /\ \E random_number \in RandomNumbers(closest_schools_by_age[KidAge(CurrentKid)]) :
          /\ school' = closest_schools_by_age[KidAge(CurrentKid)][random_number + 1]
          /\ AddStudent(school', CurrentKid)
    /\ person_idx' = person_idx + 1
    /\ UNCHANGED <<not_kids, area_people, school_order, neighbour_schools, n_pupils_max,
                   age_structure, kpc, area_idx, closest_schools_by_age, is_school_full>>

\* lines 158-180: the candidates are scanned for a school with a vacancy
MandatoryLookup ==
    /\ kpc = "mandatory"
    /\ person_idx <= Len(area_people[area_idx])
    /\ InMandatoryRange(KidAge(CurrentKid))
    /\ KidAge(CurrentKid) \in DOMAIN is_school_full
    /\ ~is_school_full[KidAge(CurrentKid)]
    /\ \E outcome \in MandatoryScan(closest_schools_by_age[KidAge(CurrentKid)], 0, school,
                                    is_school_full[KidAge(CurrentKid)]) :
          /\ outcome[1] # 0
          /\ school' = outcome[1]
          /\ is_school_full' = [is_school_full EXCEPT ![KidAge(CurrentKid)] = outcome[2]]
          /\ AddStudent(outcome[1], CurrentKid)
    /\ person_idx' = person_idx + 1
    /\ UNCHANGED <<not_kids, area_people, school_order, neighbour_schools, n_pupils_max,
                   age_structure, kpc, area_idx, closest_schools_by_age>>

\* lines 158-180 on a scan that binds no school (line 162 breaks at once)
\* before any person of the call was given one: line 180 reads the unbound
\* local and raises UnboundLocalError, which nothing catches
MandatoryUnbound ==
    /\ kpc = "mandatory"
    /\ person_idx <= Len(area_people[area_idx])
    /\ InMandatoryRange(KidAge(CurrentKid))
    /\ KidAge(CurrentKid) \in DOMAIN is_school_full
    /\ ~is_school_full[KidAge(CurrentKid)]
    /\ \E outcome \in MandatoryScan(closest_schools_by_age[KidAge(CurrentKid)], 0, school,
                                    is_school_full[KidAge(CurrentKid)]) :
          /\ outcome[1] = 0
          /\ is_school_full' = [is_school_full EXCEPT ![KidAge(CurrentKid)] = outcome[2]]
    /\ kpc' = "error"
    /\ UNCHANGED <<not_kids, area_people, school_order, neighbour_schools, n_pupils_max,
                   students, age_structure, area_idx, person_idx, closest_schools_by_age, school>>

\* line 142 exhausted, lines 130-132: on to the non-mandatory ages
EndMandatory ==
    /\ kpc = "mandatory"
    /\ person_idx > Len(area_people[area_idx])
    /\ kpc' = "non_mandatory"
    /\ person_idx' = 1
    /\ school' = 0
    /\ UNCHANGED <<not_kids, area_people, school_order, neighbour_schools, n_pupils_max,
                   students, age_structure, area_idx, closest_schools_by_age, is_school_full>>

\* lines 190-200: a person outside the optional ages, without age group, or
\* of an age whose memo says full
NonMandatorySkip ==
    /\ kpc = "non_mandatory"
    /\ person_idx <= Len(area_people[area_idx])
    /\ \/ ~InNonMandatoryRange(KidAge(CurrentKid))
       \/ KidAge(CurrentKid) \notin DOMAIN is_school_full
       \/ KidAge(CurrentKid) \in DOMAIN is_school_full /\ is_school_full[KidAge(CurrentKid)]
    /\ person_idx' = person_idx + 1
    /\ UNCHANGED <<not_kids, area_people, school_order, neighbour_schools, n_pupils_max,
                   students, age_structure, kpc, area_idx, closest_schools_by_age,
                   is_school_full, school>>

\* lines 201-218: the candidates are scanned, then the person is added to
\* the school the scan ended on
NonMandatoryLookup ==
    /\ kpc = "non_mandatory"
    /\ person_idx <= Len(area_people[area_idx])
    /\ InNonMandatoryRange(KidAge(CurrentKid))
    /\ KidAge(CurrentKid) \in DOMAIN is_school_full
    /\ ~is_school_full[KidAge(CurrentKid)]
    /\ \E found \in {NonMandatoryScan(closest_schools_by_age[KidAge(CurrentKid)], 0, school,
                                      KidAge(CurrentKid))} :
          /\ found # 0
          /\ school' = found
          /\ AddStudent(found, CurrentKid)
          /\ age_structure' = [age_structure EXCEPT ![found][KidAge(CurrentKid)] = @ + 1]
    /\ person_idx' = person_idx + 1
    /\ UNCHANGED <<not_kids, area_people, school_order, neighbour_schools, n_pupils_max,
                   kpc, area_idx, closest_schools_by_age, is_school_full>>

\* lines 201-217 on a scan that binds no school before any person of the
\* call was given one: line 217 raises UnboundLocalError
NonMandatoryUnbound ==
    /\ kpc = "non_mandatory"
    /\ person_idx <= Len(area_people[area_idx])
    /\ InNonMandatoryRange(KidAge(CurrentKid))
    /\ KidAge(CurrentKid) \in DOMAIN is_school_full
    /\ ~is_school_full[KidAge(CurrentKid)]
    /\ \E found \in {NonMandatoryScan(closest_schools_by_age[KidAge(CurrentKid)], 0, school,
                                      KidAge(CurrentKid))} :
          found = 0
    /\ kpc' = "error"
    /\ UNCHANGED <<not_kids, area_people, school_order, neighbour_schools, n_pupils_max,
                   students, age_structure, area_idx, person_idx, closest_schools_by_age,
                   is_school_full, school>>

\* line 190 exhausted: next area
EndNonMandatory ==
    /\ kpc = "non_mandatory"
    /\ person_idx > Len(area_people[area_idx])
    /\ kpc' = "for_area"
    /\ area_idx' = area_idx + 1
    /\ UNCHANGED <<not_kids, area_people, school_order, neighbour_schools, n_pupils_max,
                   students, age_structure, person_idx, closest_schools_by_age,
                   is_school_full, school>>

\* line 112 exhausted
KidsDone ==
    /\ kpc = "for_area"
    /\ area_idx > Len(area_people)
    /\ kpc' = "done"
    /\ UNCHANGED <<not_kids, area_people, school_order, neighbour_schools, n_pupils_max,
                   students, age_structure, area_idx, person_idx, closest_schools_by_age,
                   is_school_full, school>>

NextKids ==
    \/ StartArea
    \/ MandatorySkip
    \/ MandatoryRandom
    \/ MandatoryLookup
    \/ MandatoryUnbound
    \/ EndMandatory
    \/ NonMandatorySkip
    \/ NonMandatoryLookup
    \/ NonMandatoryUnbound
    \/ EndNonMandatory
    \/ KidsDone

InitDraw ==
    /\ CareIdle
    /\ KidsIdle
    /\ WorkersIdle
    /\ StationsIdle
    /\ TeachersIdle
    /\ pool_by_age \in {PeopleByAge(a, men) : a \in 1..4, men \in BOOLEAN}
    /\ returned = 0
    /\ calls = <<>>

InitWorkers ==
    /\ CareIdle
    /\ KidsIdle
    /\ DrawIdle
    /\ StationsIdle
    /\ TeachersIdle
    /\ workers_sector \in Sectors
    /\ staffed_super_areas \in {<<"A", "B">>, <<"B", "A">>, <<"C", "A">>}
    /\ super_area_workers \in
          {("A" :> ws) @@ ("B" :> <<w, w>>) @@ ("C" :> <<w>>) :
              ws \in WorkerLists,
              w \in {[sector |-> "Q", primary_activity |-> "None", sub_sector |-> "None"]}}
    /\ n_workers \in {(1 :> n1) @@ (2 :> n2) @@ (3 :> 1) @@ (5 :> 1) : n1, n2 \in 0..MaxStaff}
    /\ workers = [a \in CareHomeAreas |-> <<>>]
    /\ primary_activity =
          [person \in AllWorkers |->
              IF super_area_workers[person[1]][person[2]].primary_activity = "None"
              THEN <<>> ELSE <<"company", 0>>]
    /\ lockdown_status = [person \in AllWorkers |-> "None"]
    /\ wpc = "for_super_area"
    /\ w_idx = 1
    /\ care_homes = <<>>
    /\ h_idx = 1
    /\ carers = <<>>

(***************************************************************************)
(* The ids of SuperStation and Station (june/geography/station.py).        *)
(***************************************************************************)
StationClasses == {"SuperStation", "Station"}

\* variant: every class draws from one generator
GeneratorOfAll(cls) == <<"object", "object">>

\* cls.__id_generators[cls]: the private name is bound to the class whose
\* body holds it, the key of the defaultdict is the class itself
Generator(cls) == <<cls, cls>>

\* the value next() yields: a defaultdict(count) starts a missing counter at 0
NextId(cls) ==
    IF Generator(cls) \in DOMAIN id_generators THEN id_generators[Generator(cls)] ELSE 0

\* the generators after n calls of cls._next_id()
Advance(cls, n) ==
    [key \in (DOMAIN id_generators) \cup {Generator(cls)} |->
        IF key = Generator(cls) THEN NextId(cls) + n ELSE id_generators[key]]

\* Stations(stations): lines 201-203, _ball_tree is None (an empty sequence
\* of points here; a collection of for_super_station has a member)
NewCollection(stations) == [members |-> stations, ball_tree |-> <<>>]

\* SuperStation(...)
NewSuperStation ==
    /\ Len(created) < MaxStations
    /\ created' = Append(created, <<"SuperStation", NextId("SuperStation")>>)
    /\ id_generators' = Advance("SuperStation", 1)
    /\ UNCHANGED <<not_stations, members, collections, last_add, closest>>

\* Station(...)
NewStation ==
    /\ Len(created) < MaxStations
    /\ created' = Append(created, <<"Station", NextId("Station")>>)
    /\ id_generators' = Advance("Station", 1)
    /\ UNCHANGED <<not_stations, members, collections, last_add, closest>>

\* Stations.for_super_station(super_areas, super_station, number_of_stations):
\* the loop creates number_of_stations stations, one after the other
ForSuperStation ==
    /\ \E k \in DOMAIN created : created[k][1] = "SuperStation"
    /\ \E number_of_stations \in 1..(MaxStations - Len(created)) :
          /\ members' = [k \in 1..number_of_stations |-> NextId("Station") + k - 1]
          /\ created' = created \o [k \in 1..number_of_stations |->
                                        <<"Station", NextId("Station") + k - 1>>]
          /\ id_generators' = Advance("Station", number_of_stations)
    /\ collections' = Append(collections, NewCollection(members'))
    /\ UNCHANGED <<not_stations, last_add, closest>>

\* lines 214-216: self.members += stations.members extends the list of the
\* left operand in place (twice its members when both operands are one
\* object); _ball_tree is not touched
AddInPlace(a, b) ==
    [collections EXCEPT ![a].members = @ \o collections[b].members]

\* a + b on two collections; return self makes the left operand the result
AddStations ==
    /\ \E a, b \in DOMAIN collections :
          /\ Len(collections[a].members) + Len(collections[b].members) <= MaxMembers
          /\ collections' = AddInPlace(a, b)
          /\ last_add' = [left |-> a, right |-> b, result |-> a,
                          left_members |-> collections[a].members,
                          right_members |-> collections[b].members]
    /\ UNCHANGED <<not_stations, id_generators, created, members, closest>>

\* lines 263-265: the tree is built over the members of this moment
ConstructBallTree ==
    /\ \E c \in DOMAIN collections :
          /\ collections[c].ball_tree # collections[c].members
          /\ collections' = [collections EXCEPT ![c].ball_tree = collections[c].members]
    /\ UNCHANGED <<not_stations, id_generators, created, members, last_add, closest>>

\* the members a query of the tree can come back with: the tree gives a
\* position among the points it was built over, self[idx] reads the member
\* at that position (lines 273-277)
Considered(collection) ==
    {collection.members[idx] : idx \in DOMAIN collection.ball_tree}

\* lines 267-277 with a tree: the member nearest to the coordinates among
\* those the tree holds; which one it is depends on the coordinates
GetClosestStation ==
    /\ \E c \in DOMAIN collections :
          /\ collections[c].ball_tree # <<>>
          /\ \E station \in Considered(collections[c]) : closest' = <<c, "Station", station>>
    /\ UNCHANGED <<not_stations, id_generators, created, members, collections, last_add>>

\* lines 269-270: without a tree the call raises ValueError
GetClosestStationRaises ==
    /\ \E c \in DOMAIN collections :
          /\ collections[c].ball_tree = <<>>
          /\ closest' = <<c, "ValueError", 0>>
    /\ UNCHANGED <<not_stations, id_generators, created, members, collections, last_add>>

NextStations ==
    \/ NewSuperStation
    \/ NewStation
    \/ ForSuperStation

\* sums and queries of the collections at hand
NextSum ==
    \/ AddStations
    \/ ConstructBallTree
    \/ GetClosestStation
    \/ GetClosestStationRaises

InitStations ==
    /\ CareIdle
    /\ KidsIdle
    /\ DrawIdle
    /\ WorkersIdle
    /\ TeachersIdle
    /\ id_generators = <<>>
    /\ created = <<>>
    /\ members = <<>>
    /\ collections = <<>>
    /\ last_add = <<>>
    /\ closest = <<>>

\* a super station and the two collections that two calls of
\* for_super_station have returned, of three stations in all
InitSum ==
    /\ CareIdle
    /\ KidsIdle
    /\ DrawIdle
    /\ WorkersIdle
    /\ TeachersIdle
    /\ id_generators = (<<"SuperStation", "SuperStation">> :> 1) @@ (<<"Station", "Station">> :> 3)
    /\ created = <<<<"SuperStation", 0>>, <<"Station", 0>>, <<"Station", 1>>, <<"Station", 2>>>>
    /\ collections \in {<<NewCollection(<<0, 1>>), NewCollection(<<2>>)>>,
                         <<NewCollection(<<0>>), NewCollection(<<1, 2>>)>>}
    /\ members = collections[2].members
    /\ last_add = <<>>
    /\ closest = <<>>

(***************************************************************************)
(* SchoolDistributor.distribute_teachers_to_school: one super area with    *)
(* two areas; area 1 has schools 1 and 2, area 2 has school 3.             *)
(***************************************************************************)
TeacherSchools == {1, 2, 3}
\* msoarea.areas, each area given by its list area.schools
AreasInMsoa == << <<1, 2>>, <<3>> >>
\* school.sector: the sub sectors the school declares
SchoolSector(s) ==
    IF s = 2 THEN {"primary", "secondary"} ELSE {"primary"}

\* Python values carry their type: <<"int", n>> or <<"list", sequence>>
DefaultLabels == <<"list", <<2314, 2315, 2316>>>>
\* ==  between two Python values: values of different types are not equal
PyEq(a, b) == a[1] = b[1] /\ a[2] = b[2]

TeacherKinds == {
    [sector |-> <<"int", 2315>>, sub_sector |-> "primary"],
    [sector |-> <<"int", 2315>>, sub_sector |-> "special_needs"],
    [sector |-> <<"int", 2315>>, sub_sector |-> "higher"],
    [sector |-> <<"int", 2315>>, sub_sector |-> "None"],
    [sector |-> <<"int", 8000>>, sub_sector |-> "primary"]}
TeacherLists == UNION {[1..n -> TeacherKinds] : n \in 0..MaxTeachers}

\* line 240: person.sector == self.education_sector_label
IsTeacher(person) == PyEq(msoarea_workers[person].sector, education_sector_label)

\* lines 259 and 263: the school takes the teacher
TakesTeacher(s, sub_sector) ==
    \/ sub_sector \in SchoolSector(s)
    \/ sub_sector = "special_needs"

\* school.add(teacher, school.SubgroupType.teacher)
AddTeacher(group, teacher) == Append(group, teacher)

\* lines 237-253: the teachers of the super area and a random area for each
FindTeachers ==
    /\ tpc = "start"
    /\ teachers' = SelectSeq([k \in DOMAIN msoarea_workers |-> k], IsTeacher)
    /\ areas_rnd_arr' \in [DOMAIN teachers' -> 0..(Len(AreasInMsoa) - 1)]
    /\ t_idx' = 1
    /\ tpc' = "for_teacher"
    /\ UNCHANGED <<not_teachers, education_sector_label, msoarea_workers, school_teachers,
                   n_teachers>>

\* line 256 false: a teacher without sub_sector is left alone
NoSubSector ==
    /\ tpc = "for_teacher"
    /\ t_idx <= Len(teachers)
    /\ msoarea_workers[teachers[t_idx]].sub_sector = "None"
    /\ t_idx' = t_idx + 1
    /\ UNCHANGED <<not_teachers, education_sector_label, msoarea_workers, tpc, teachers,
                   areas_rnd_arr, school_teachers, n_teachers>>

\* lines 256-266: the teacher is added to every school of the random area
\* that takes the sub_sector
PlaceTeacher ==
    /\ tpc = "for_teacher"
    /\ t_idx <= Len(teachers)
    /\ msoarea_workers[teachers[t_idx]].sub_sector # "None"
    /\ \E schools \in {Range(AreasInMsoa[areas_rnd_arr[t_idx] + 1])} :
       \E sub_sector \in {msoarea_workers[teachers[t_idx]].sub_sector} :
          /\ school_teachers' =
                [s \in TeacherSchools |->
                    IF s \in schools /\ TakesTeacher(s, sub_sector)
                    THEN AddTeacher(school_teachers[s], teachers[t_idx])
                    ELSE school_teachers[s]]
          /\ n_teachers' =
                [s \in TeacherSchools |->
                    IF s \in schools /\ TakesTeacher(s, sub_sector)
                    THEN n_teachers[s] + 1
                    ELSE n_teachers[s]]
    /\ t_idx' = t_idx + 1
    /\ UNCHANGED <<not_teachers, education_sector_label, msoarea_workers, tpc, teachers,
                   areas_rnd_arr>>

\* line 255 exhausted
TeachersDone ==
    /\ tpc = "for_teacher"
    /\ t_idx > Len(teachers)
    /\ tpc' = "done"
    /\ UNCHANGED <<not_teachers, education_sector_label, msoarea_workers, teachers,
                   areas_rnd_arr, t_idx, school_teachers, n_teachers>>

NextTeachers ==
    \/ FindTeachers
    \/ NoSubSector
    \/ PlaceTeacher
    \/ TeachersDone

\* the label is the list of the constructor's default and of from_file, or
\* one sector id
InitTeachers ==
    /\ CareIdle
    /\ KidsIdle
    /\ DrawIdle
    /\ WorkersIdle
    /\ StationsIdle
    /\ education_sector_label \in {DefaultLabels, <<"int", 2315>>}
    /\ msoarea_workers \in TeacherLists
    /\ tpc = "start"
    /\ teachers = <<>>
    /\ areas_rnd_arr = <<>>
    /\ t_idx = 1
    /\ school_teachers = [s \in TeacherSchools |-> <<>>]
    /\ n_teachers = [s \in TeacherSchools |-> 0]

Init == InitCare /\ KidsIdle /\ DrawIdle /\ WorkersIdle /\ StationsIdle /\ TeachersIdle

\* two calls in a row, on super areas among which "D", where nobody lives
ZeroTable == [keys |-> <<Label(70, 74), Label(75, 79)>>,
              count |-> (Label(70, 74) :> 0) @@ (Label(75, 79) :> 0)]
OnesTable == [keys |-> <<Label(70, 74), Label(75, 79)>>,
              count |-> (Label(70, 74) :> 1) @@ (Label(75, 79) :> 1)]
InitTwice ==
    /\ super_areas \in {<<"D">>, <<"D", "B">>, <<"A", "D">>, <<"B", "A">>}
    /\ communal_men_by_super_area \in
          {t @@ ("D" :> d) : t \in TablesBySuperArea(ScenarioMen), d \in {ZeroTable, OnesTable}}
    /\ communal_women_by_super_area \in
          {t @@ ("D" :> d) : t \in {("B" :> ScenarioWomen), ("A" :> ZeroTable) @@ ("B" :> ScenarioWomen)},
                            d \in {ZeroTable, OnesTable}}
    /\ n_residents = (1 :> MaxCap) @@ (2 :> MaxCap) @@ (3 :> 3) @@ (5 :> 1)
    /\ CareStart
    /\ KidsIdle
    /\ DrawIdle
    /\ WorkersIdle
    /\ StationsIdle
    /\ TeachersIdle
NextTwice == NextCare \/ CallAgain
SpecTwice == InitTwice /\ [][NextTwice]_vars
Next == NextCare
Spec == Init /\ [][Next]_vars
\* the method runs to its end (single-threaded, no step is suspended for ever);
\* the fair runs are explored from the calls on both super areas, "A" first
FairInit == Init /\ super_areas = <<"A", "B">>
FairSpec == FairInit /\ [][Next]_vars /\ WF_vars(Next)

SpecKids == InitKids /\ [][NextKids]_vars

SpecDraw == InitDraw /\ [][NextDraw]_vars

SpecStations == InitStations /\ [][NextStations]_vars

SpecSum == InitSum /\ [][NextSum]_vars

SpecTeachers == InitTeachers /\ [][NextTeachers]_vars

\* the method runs to its end: single-threaded, no step is suspended for ever
SpecWorkers == InitWorkers /\ [][NextWorkers]_vars /\ WF_vars(NextWorkers)

(***************************************************************************)
(* Properties of populate_care_homes_in_super_areas.                       *)
(***************************************************************************)
AllResidents == UNION {Range(residents[a]) : a \in CareHomeAreas}
InitialTarget(sex, label) ==
    IF sex = "m" THEN communal_men_by_super_area[SuperAreaName].count[label]
    ELSE communal_women_by_super_area[SuperAreaName].count[label]

\* C1: no care home ever holds more residents than its n_residents (every
\* care home starts empty), during and after the call.
CapacityRespected ==
    \A a \in CareHomeAreas : Len(residents[a]) <= n_residents[a]

\* C2: the age bands of both working tables are ordered by descending
\* integer lower bound (oldest cohort first).
BandsOldestFirst ==
    \A t \in {communal_men_sorted, communal_women_sorted} :
        \A k \in 1..(Len(t.keys) - 1) :
            ParseRange(t.keys[k])[1] >= ParseRange(t.keys[k + 1])[1]

\* C3: the scenario (super area "B" alone: one care home of capacity 3, men
\* 80-89: 2, women 70-79: 2, men aged 82 and 85, women aged 71, 73 and 90)
\* ends with both men placed, exactly one of the women aged 71 or 73 placed
\* and the woman aged 90 not placed.
ScenarioRun ==
    /\ super_areas = <<"B">>
    /\ pc = "done"
ScenarioOutcome ==
    ScenarioRun =>
        LET placed == Range(residents[3]) IN
        /\ Len(residents[3]) = 3
        /\ {p \in Range(PeopleOf(3)) : Sex(p) = "m"} \subseteq placed
        /\ Cardinality({p \in placed : Sex(p) = "f" /\ Age(p) \in {71, 73}}) = 1
        /\ \A p \in placed : Age(p) # 90
ScenarioReached ==
    /\ ScenarioRun
    /\ \E p \in Range(residents[3]) : Sex(p) = "f"

\* C4: no person appears twice in the resident lists of the care homes,
\* neither twice in one list nor in two lists.
NoDoublePlacement ==
    /\ \A a \in CareHomeAreas :
          \A k, l \in DOMAIN residents[a] : k # l => residents[a][k] # residents[a][l]
    /\ \A a, b \in CareHomeAreas :
          a # b => Range(residents[a]) \cap Range(residents[b]) = {}
PlacedInSeveralHomes ==
    /\ pc = "done"
    /\ \A a \in {1, 2, 3} : residents[a] # <<>>
    /\ \E p, q \in AllResidents : Sex(p) = "m" /\ Sex(q) = "f"

\* C7: when the call fails on a super area without a row, every other super
\* area of the call, before or after it, has been populated.
OthersStillPopulated ==
    pc = "error" => \A k \in DOMAIN super_areas : k # sa_idx => k \in processed

\* C8: when the call fails on a super area without a row, no resident of
\* that super area has been placed and its care homes have no resident.
FailureBeforeMutation ==
    pc = "error" =>
        \A a \in Range(AreasOf(SuperAreaName)) :
            /\ a \in CareHomeAreas => residents[a] = <<>>
            /\ Range(PeopleOf(a)) \cap AllResidents = {}
FailedOnWomenRow ==
    /\ pc = "error"
    /\ SuperAreaName \in DOMAIN communal_men_by_super_area
    /\ SuperAreaName \notin DOMAIN communal_women_by_super_area
    /\ AllResidents # {}

\* C9: the call ends; a while loop starts a further pass only after a pass
\* that made an assignment, and ends right after the first complete pass
\* that made none.
LoopsEndAtFixedPoint ==
    /\ <>(pc \in {"done", "error"})
    /\ [][/\ (pc = "while" /\ pc' = "for_area") => (passes = 0 \/ assigned_in_pass > 0)
          /\ (pc = "while" /\ (phase' # phase \/ sa_idx' # sa_idx))
                => (passes >= 1 /\ assigned_in_pass = 0)]_vars
LoopEndsAfterSeveralPasses ==
    /\ pc = "while"
    /\ phase = "m"
    /\ ~men_left
    /\ passes >= 3
    /\ assigned_in_pass = 0
    /\ total_care_home_residents > 0

\* C10: the remaining target of every band is never negative, never grows,
\* and drops by exactly 1 for the band a person is placed for.
TargetsOnlyDecrease ==
    /\ [](\A t \in {communal_men_sorted, communal_women_sorted} :
             \A k \in DOMAIN t.count : t.count[k] >= 0)
    /\ [][pc # "for_super_area" =>
            /\ \A k \in DOMAIN communal_men_sorted.count :
                  communal_men_sorted'.count[k] <= communal_men_sorted.count[k]
            /\ \A k \in DOMAIN communal_women_sorted.count :
                  communal_women_sorted'.count[k] <= communal_women_sorted.count[k]
            /\ IF residents' # residents
               THEN /\ CurrentSorted'.count[CurrentLabel] = CurrentSorted.count[CurrentLabel] - 1
                    /\ \A k \in DOMAIN CurrentSorted.count :
                          k # CurrentLabel => CurrentSorted'.count[k] = CurrentSorted.count[k]
                    /\ phase = "m" => communal_women_sorted' = communal_women_sorted
                    /\ phase = "f" => communal_men_sorted' = communal_men_sorted
               ELSE /\ communal_men_sorted' = communal_men_sorted
                    /\ communal_women_sorted' = communal_women_sorted]_vars
TargetUsedUp ==
    /\ pc = "for_band"
    /\ j <= Len(CurrentSorted.keys)
    /\ CurrentSorted.count[CurrentLabel] = 0
    /\ InitialTarget(phase, CurrentLabel) > 0

\* every count of both rows of the super area is zero
ZeroTargets(name) ==
    /\ name \in DOMAIN communal_men_by_super_area
    /\ name \in DOMAIN communal_women_by_super_area
    /\ \A t \in {communal_men_by_super_area[name], communal_women_by_super_area[name]} :
          \A label \in DOMAIN t.count : t.count[label] = 0
\* no area of the super area has anybody living in it
NobodyLivesIn(name) ==
    \A a \in Range(AreasOf(name)) : \A p \in DOMAIN Roster : AreaOfPerson(p) # a

\* C14: while a super area whose targets are all zero is handled, in the
\* first call or in a repeated one, the resident list of no care home
\* changes, and its care homes stay empty; this holds whether or not
\* somebody lives in its areas, so also when nobody does.
NoOpOnZeroTargets ==
    /\ [](\A name \in Range(super_areas) :
             ZeroTargets(name) =>
                 \A a \in Range(AreasOf(name)) \cap CareHomeAreas : residents[a] = <<>>)
    /\ [][(pc \in {"while", "for_area", "for_band"} /\ ZeroTargets(SuperAreaName)) =>
             (residents' = residents
                 /\ total_care_home_residents' = total_care_home_residents)]_vars
\* two calls have ended on "D", where nobody lives and all targets are zero,
\* and on "B", whose care home was filled
SecondRunOnEmptySuperArea ==
    /\ pc = "done"
    /\ runs = 2
    /\ super_areas = <<"D", "B">>
    /\ ZeroTargets("D")
    /\ NobodyLivesIn("D")
    /\ residents[5] = <<>>
    /\ Len(residents[3]) = 3

\* C15: within a super area a woman is placed only in the women's loop,
\* which starts only after a complete pass of the men's loop that placed
\* nobody; a man is placed only while no woman of the super area has been
\* placed; every placement comes after the targets were sorted and the
\* pools built for that super area.
SuperAreaResidents ==
    UNION {Range(residents[a]) : a \in Range(AreasOf(SuperAreaName)) \cap CareHomeAreas}
MenThenWomen ==
    [][/\ (pc = "while" /\ phase' # phase) =>
             (phase = "m" /\ phase' = "f" /\ ~men_left /\ passes >= 1 /\ assigned_in_pass = 0)
       /\ residents' # residents =>
             LET placed == residents'[CurrentArea][Len(residents'[CurrentArea])] IN
             /\ pc = "for_band"
             /\ AllResidents' = AllResidents \cup {placed}
             /\ Sex(placed) = "f" => phase = "f"
             /\ Sex(placed) = "m" =>
                   (phase = "m" /\ \A p \in SuperAreaResidents : Sex(p) = "m")
             /\ communal_men_sorted.keys \in
                   SortedOrders(communal_men_by_super_area[SuperAreaName].keys)
             /\ communal_women_sorted.keys \in
                   SortedOrders(communal_women_by_super_area[SuperAreaName].keys)
             /\ areas_with_care_homes \in
                   Orderings(SelectSeq(AreasOf(SuperAreaName), LAMBDA a : a \in CareHomeAreas))
             /\ DOMAIN areas_dicts = DOMAIN areas_with_care_homes
             /\ placed \in PoolPeople(CurrentPool)
             /\ AreaOfPerson(placed) = CurrentArea
      ]_vars
\* the first woman of super area "A" has been placed, in the care home of
\* area 2, after two men were placed in the care home of area 1
FirstWomanAfterMen ==
    /\ pc = "for_band"
    /\ phase = "f"
    /\ SuperAreaName = "A"
    /\ Cardinality({p \in SuperAreaResidents : Sex(p) = "f"}) = 1
    /\ Len(residents[1]) = 2
    /\ \A p \in Range(residents[1]) : Sex(p) = "m"
    /\ \E p \in Range(residents[2]) : Sex(p) = "f"

(***************************************************************************)
(* Properties of distribute_kids_to_school.                                *)
(***************************************************************************)
\* the first min(N, len(candidates)) candidate schools of an age
FirstCandidates(age) ==
    LET candidates == closest_schools_by_age[age]
    IN SubSeq(candidates, 1,
              IF Len(candidates) < neighbour_schools THEN Len(candidates) ELSE neighbour_schools)
KidAtHand(position) ==
    /\ kpc = position
    /\ person_idx <= Len(area_people[area_idx])
    /\ KidAge(CurrentKid) \in DOMAIN closest_schools_by_age
    /\ closest_schools_by_age[KidAge(CurrentKid)] # <<>>

\* C5: every mandatory-age person with candidates is added to the first
\* candidate, nearest first, that has n_pupils < n_pupils_max at that
\* moment, whenever there is one.
MandatoryNearestVacant ==
    [][(KidAtHand("mandatory") /\ InMandatoryRange(KidAge(CurrentKid))) =>
          LET candidates == FirstCandidates(KidAge(CurrentKid))
              vacant == {k \in DOMAIN candidates : ~IsFull(candidates[k])}
          IN vacant # {} =>
                LET first == CHOOSE k \in vacant : \A l \in vacant : k <= l
                IN students' = [students EXCEPT ![candidates[first]] = Append(@, CurrentKid)]
      ]_vars

\* C6: a non-mandatory-age person is added only to a school that is not
\* full for that age, and when all candidates are full for that age no
\* school's students or age_structure change.
NonMandatoryOnlyIfVacant ==
    [][(KidAtHand("non_mandatory") /\ InNonMandatoryRange(KidAge(CurrentKid))) =>
          LET candidates == FirstCandidates(KidAge(CurrentKid))
          IN /\ \A s \in KidSchools :
                   students'[s] # students[s] => ~IsFullForAge(s, KidAge(CurrentKid))
             /\ (\A k \in DOMAIN candidates : IsFullForAge(candidates[k], KidAge(CurrentKid)))
                   => (students' = students /\ age_structure' = age_structure)
      ]_vars

(***************************************************************************)
(* Properties of _find_person_in_age_range.                                *)
(***************************************************************************)
\* the people a sequence of calls has returned
Returned == {calls[k][3] : k \in DOMAIN calls} \ {0}
\* the people the pool held before the first call
PoolAtStart == PoolPeople(pool_by_age) \cup Returned
InBand(person, label) ==
    ParseRange(label)[1] <= Age(person) /\ Age(person) <= ParseRange(label)[2]

\* C11: a call only returns a person whose age is within the two bounds,
\* both inclusive, and every person of the pool whose age is within the
\* bounds can be the one the call returns.
DrawnWithinBounds ==
    /\ \A k \in DOMAIN calls :
          calls[k][3] # 0 =>
              calls[k][1] <= Age(calls[k][3]) /\ Age(calls[k][3]) <= calls[k][2]
    /\ Len(calls) < MaxCalls =>
          \A label \in DrawLabels :
          \A person \in PoolPeople(pool_by_age) :
              InBand(person, label) =>
                  ENABLED (ReturnChosen /\ returned' = person
                              /\ calls'[Len(calls')][1] = ParseRange(label)[1]
                              /\ calls'[Len(calls')][2] = ParseRange(label)[2])
\* the women aged 74 and 79 of area 2: 79 is not in 80-89 and is the upper
\* bound of 75-79; 74 is not in 75-79 and is the upper bound of 70-74
BoundaryAgesDrawn ==
    /\ Len(calls) = 4
    /\ calls[1] = <<80, 89, 0>>
    /\ calls[2][1] = 75 /\ calls[2][2] = 79 /\ calls[2][3] # 0 /\ Age(calls[2][3]) = 79
    /\ calls[3] = <<75, 79, 0>>
    /\ calls[4][1] = 70 /\ calls[4][2] = 74 /\ calls[4][3] # 0 /\ Age(calls[4][3]) = 74

\* C12: a call that returns a person takes exactly that person out of the
\* pool (one person fewer, everybody else stays), and no later call on
\* the pool returns that person again.
DrawWithoutReplacement ==
    /\ [](\A k, l \in DOMAIN calls : (k # l /\ calls[k][3] # 0) => calls[k][3] # calls[l][3])
    /\ [](Returned \cap PoolPeople(pool_by_age) = {})
    /\ [][(calls' # calls /\ returned' # 0) =>
             /\ returned' \in PoolPeople(pool_by_age)
             /\ PoolPeople(pool_by_age') = PoolPeople(pool_by_age) \ {returned'}
             /\ PoolSize(pool_by_age') = PoolSize(pool_by_age) - 1
             /\ \A age \in DOMAIN pool_by_age' :
                   \A k \in DOMAIN pool_by_age'[age] : Age(pool_by_age'[age][k]) = age]_vars
\* a person has been returned, and a later call for a range that holds the
\* person's age has returned None
DrawnPersonNotRedrawn ==
    \E k, l \in DOMAIN calls :
        /\ k < l
        /\ calls[k][3] # 0
        /\ calls[l][1] <= Age(calls[k][3]) /\ Age(calls[k][3]) <= calls[l][2]
        /\ calls[l][3] = 0
        /\ Cardinality(Returned) >= 2

\* C13: on a pool of N people of pairwise different ages, with every call
\* made for a range that covers them all, the first N calls each return a
\* person and leave the pool without people, every later call returns None;
\* a call that returns None changes neither the people of the pool nor any
\* care home or target.
CoveringCalls ==
    /\ \A k \in DOMAIN calls : \A person \in PoolAtStart :
          calls[k][1] <= Age(person) /\ Age(person) <= calls[k][2]
    /\ \A person, other \in PoolAtStart : person # other => Age(person) # Age(other)
ExhaustedAfterNDraws ==
    /\ [](CoveringCalls =>
             /\ \A k \in DOMAIN calls : (k <= Cardinality(PoolAtStart)) <=> (calls[k][3] # 0)
             /\ Len(calls) >= Cardinality(PoolAtStart) => PoolPeople(pool_by_age) = {})
    /\ [][(calls' # calls /\ returned' = 0) =>
             /\ PoolPeople(pool_by_age') = PoolPeople(pool_by_age)
             /\ PoolSize(pool_by_age') = PoolSize(pool_by_age)
             /\ residents' = residents
             /\ communal_men_sorted' = communal_men_sorted
             /\ communal_women_sorted' = communal_women_sorted]_vars
\* three people, three calls that return a person, a fourth that returns None
ExhaustedOnFourthDraw ==
    /\ CoveringCalls
    /\ Cardinality(PoolAtStart) = 3
    /\ Len(calls) = 4
    /\ returned = 0

\* the ages the school age range holds besides the mandatory ones, the ends
\* of both ranges counted in
OptionalAges ==
    {age \in school_age_range[1]..school_age_range[2] :
        age < mandatory_school_age_range[1] \/ age > mandatory_school_age_range[2]}
\* the times a person is among the students of the schools
TimesEnrolled(person) ==
    Cardinality({<<s, k>> \in KidSchools \X (1..(2 * MaxKids)) :
                    k \in DOMAIN students[s] /\ students[s][k] = person})

\* C16: every person of a mandatory age (5 and 18 included) whose age has
\* candidate schools is added to exactly one school, one of the first
\* min(N, len(candidates)) candidates, also when all of them are full.
MandatoryAlwaysPlaced ==
    /\ [][(KidAtHand("mandatory")
             /\ mandatory_school_age_range[1] <= KidAge(CurrentKid)
             /\ KidAge(CurrentKid) <= mandatory_school_age_range[2]) =>
               \E s \in Range(FirstCandidates(KidAge(CurrentKid))) :
                   students' = [students EXCEPT ![s] = Append(@, CurrentKid)]]_vars
    /\ [](kpc = "done" =>
             \A a \in DOMAIN area_people : \A k \in DOMAIN area_people[a] :
                 (KidAge(<<a, k>>) \in SchoolTrees
                    /\ mandatory_school_age_range[1] <= KidAge(<<a, k>>)
                    /\ KidAge(<<a, k>>) <= mandatory_school_age_range[2])
                 => TimesEnrolled(<<a, k>>) = 1)
\* a person aged 5 has been added to a school that was full already
OversubscribedByMandatory ==
    /\ kpc = "mandatory"
    /\ person_idx > 1
    /\ KidAge(<<area_idx, person_idx - 1>>) = mandatory_school_age_range[1]
    /\ school # 0
    /\ NPupils(school) > n_pupils_max[school]
    /\ students[school][NPupils(school)] = <<area_idx, person_idx - 1>>

\* C17: in the non-mandatory step a person is treated as a candidate, and
\* so added to a school when a candidate school has room for the age, if
\* the age is in the school age range and outside the mandatory range, the
\* ends of both ranges counted in (ages 0 and 19 are candidates); every
\* other person is left alone.
OptionalAgesInclusive ==
    [][(KidAtHand("non_mandatory") /\ ~is_school_full[KidAge(CurrentKid)]) =>
          LET age == KidAge(CurrentKid)
              candidates == FirstCandidates(age)
          IN /\ (age \in OptionalAges
                    /\ \E k \in DOMAIN candidates : ~IsFullForAge(candidates[k], age))
                   => students' # students
             /\ age \notin OptionalAges => students' = students
      ]_vars

\* the rule the non-mandatory ages are to be judged by: the pupils of that
\* exact age have reached n_pupils_max / (age_max - age_min)
YearIsFull(s, age) ==
    PupilsInYear(s, age - AgeMin(s) + 1) * (AgeMax(s) - AgeMin(s)) >= n_pupils_max[s]

\* C18: a scan for a mandatory-age person passes over a candidate exactly
\* when its n_pupils has reached n_pupils_max; a scan for a non-mandatory
\* person passes over a candidate exactly when the pupils of that exact age
\* have reached n_pupils_max / (age_max - age_min), whatever the total: the
\* person goes to the first candidate that is not full by the rule of
\* their age, when there is one.
FullnessRulesDistinct ==
    [][/\ (KidAtHand("mandatory") /\ InMandatoryRange(KidAge(CurrentKid))
             /\ ~is_school_full[KidAge(CurrentKid)]) =>
             LET candidates == FirstCandidates(KidAge(CurrentKid))
                 vacant == {k \in DOMAIN candidates : NPupils(candidates[k]) < n_pupils_max[candidates[k]]}
             IN vacant # {} =>
                   students' = [students EXCEPT
                                   ![candidates[CHOOSE k \in vacant : \A l \in vacant : k <= l]]
                                       = Append(@, CurrentKid)]
       /\ (KidAtHand("non_mandatory") /\ InNonMandatoryRange(KidAge(CurrentKid))
             /\ ~is_school_full[KidAge(CurrentKid)]) =>
             LET candidates == FirstCandidates(KidAge(CurrentKid))
                 vacant == {k \in DOMAIN candidates : ~YearIsFull(candidates[k], KidAge(CurrentKid))}
             IN vacant # {} =>
                   students' = [students EXCEPT
                                   ![candidates[CHOOSE k \in vacant : \A l \in vacant : k <= l]]
                                       = Append(@, CurrentKid)]
      ]_vars

(***************************************************************************)
(* Properties of distribute_workers_to_care_homes.                         *)
(***************************************************************************)
AllCareWorkers == UNION {Range(workers[a]) : a \in CareHomeAreas}
\* the test of the claim: sector S, no primary activity before the call, no
\* sub sector
Eligible(person) ==
    /\ Sector(person) = workers_sector
    /\ super_area_workers[person[1]][person[2]].primary_activity = "None"
    /\ SubSector(person) = "None"

\* C19: with workers sector S configured, whatever S is, only workers whose
\* sector is S, who had no primary activity and have no sub sector are
\* added to care homes, and every such worker of the super area is among
\* its carers.
OnlyConfiguredSector ==
    /\ \A person \in AllCareWorkers : Eligible(person)
    /\ wpc = "while" =>
          \A person \in WorkersOf(StaffedSuperArea) :
              Eligible(person) => (person \in Range(carers) \/ person \in AllCareWorkers)

\* C20: no care home ever has more workers than n_workers, no worker is in
\* two care homes or twice in one, the call ends, and at its end a care
\* home of a super area of the call is short of workers only if no carer
\* of its super area is left.
StaffingWithinTarget ==
    /\ [](\A a \in CareHomeAreas : Len(workers[a]) <= n_workers[a])
    /\ [](\A a, b \in CareHomeAreas :
             \A k \in DOMAIN workers[a] : \A l \in DOMAIN workers[b] :
                 (a # b \/ k # l) => workers[a][k] # workers[b][l])
    /\ [](wpc = "done" =>
             \A name \in Range(staffed_super_areas) :
             \A a \in Range(AreasOf(name)) \cap CareHomeAreas :
                 Len(workers[a]) < n_workers[a] =>
                     \A person \in WorkersOf(name) : ~IsCarer(person))
    /\ <>(wpc = "done")
\* the carers of "A" ran out on its first care home; its second care home
\* got nobody and the care home of "B" was staffed afterwards
ShortOfCarersThenOn ==
    /\ wpc = "done"
    /\ staffed_super_areas = <<"A", "B">>
    /\ Len(workers[1]) = 1 /\ n_workers[1] = 2
    /\ Len(workers[2]) = 0 /\ n_workers[2] >= 1
    /\ Len(workers[3]) = 1

\* C21: a worker's lockdown_status is "key_worker" exactly when the call
\* has added the worker to a care home, the flag is set in the step that
\* adds the worker, and lockdown_status and primary activity of every
\* worker not added stay as they were.
KeyWorkersAreTheAdded ==
    /\ [](\A person \in AllWorkers :
             (lockdown_status[person] = "key_worker") <=> (person \in AllCareWorkers))
    /\ [][\A person \in AllWorkers :
             IF person \in AllCareWorkers' \ AllCareWorkers
             THEN lockdown_status[person] = "None" /\ lockdown_status'[person] = "key_worker"
             ELSE /\ lockdown_status'[person] = lockdown_status[person]
                  /\ primary_activity'[person] = primary_activity[person]]_vars
\* the call has ended; a worker of the super area was added and flagged, a
\* worker of the same super area who has a company was not
AddedAndOthers ==
    /\ wpc = "done"
    /\ \E person \in WorkersOf("A") : lockdown_status[person] = "key_worker"
    /\ \E person \in WorkersOf("A") :
          lockdown_status[person] = "None" /\ primary_activity[person] = <<"company", 0>>

\* C23: a worker is among the workers of a care home exactly when the
\* worker's primary activity is the workers subgroup of that care home, in
\* every state; before the first add every care home is without workers.
BothSidesTogether ==
    /\ \A a \in CareHomeAreas : \A person \in AllWorkers :
          (person \in Range(workers[a])) <=> (primary_activity[person] = <<"care_home", a>>)
    /\ (wpc = "for_super_area" /\ w_idx = 1) => \A a \in CareHomeAreas : workers[a] = <<>>
\* workers were added to two care homes
EmployedInTwoHomes ==
    /\ wpc = "while"
    /\ workers[1] # <<>>
    /\ workers[2] # <<>>
    /\ \E person \in AllWorkers : primary_activity[person] = <<>>

\* C30: after any sequence of _find_person_in_age_range calls on a pool
\* built by _create_people_dicts, every age bucket the pool holds is
\* non-empty.
NoEmptyBuckets ==
    \A age \in DOMAIN pool_by_age : pool_by_age[age] # <<>>

\* C28: within one pass the care homes are taken in the shuffled order and,
\* inside a care home, the age ranges in the sorted order, each pair of a
\* care home and an age range once; a pair receives at most one person, and
\* only if the target of the age range is positive and the pool of the area
\* holds a person of that sex in the age range.
OnePersonPerPairInOrder ==
    [][/\ (pc = "while" /\ pc' = "for_area") => i' = 1
       /\ (pc = "for_area" /\ pc' = "for_area") => i' = i + 1
       /\ (pc = "for_area" /\ pc' = "for_band") => (i' = i /\ j' = 1)
       /\ (pc = "for_band" /\ pc' = "for_band") => (i' = i /\ j' = j + 1)
       /\ (pc = "for_band" /\ pc' = "for_area") => i' = i + 1
       /\ (pc \in {"for_area", "for_band"}) =>
             /\ areas_with_care_homes' = areas_with_care_homes
             /\ communal_men_sorted'.keys = communal_men_sorted.keys
             /\ communal_women_sorted'.keys = communal_women_sorted.keys
       /\ (residents' # residents) =>
             /\ pc = "for_band"
             /\ j \in DOMAIN CurrentSorted.keys
             /\ CurrentSorted.count[CurrentLabel] > 0
             /\ \E person \in Range(AvailablePeople(CurrentPool, ParseRange(CurrentLabel)[1],
                                                       ParseRange(CurrentLabel)[2])) :
                   /\ Sex(person) = phase
                   /\ residents' = [residents EXCEPT ![CurrentArea] = Append(@, person)]
             /\ j' = j + 1]_vars
\* in one pass, pairs of both care homes of the super area have received a person
BothHomesServedInOnePass ==
    /\ pc = "for_band"
    /\ i = 2
    /\ assigned_in_pass >= 2
    /\ residents[areas_with_care_homes[1]] # <<>>
    /\ residents[areas_with_care_homes[2]] # <<>>

SuperAreaTargets(sex) == IF sex = "m" THEN communal_men_sorted ELSE communal_women_sorted

\* no care home of the super area with a vacancy has, for an age range of this
\* sex with a positive target, a person of its area who is not yet drawn
NothingLeftFor(sex) ==
    \A k \in DOMAIN areas_with_care_homes :
    \A label \in Range(SuperAreaTargets(sex).keys) :
    \A person \in Range(PeopleOf(areas_with_care_homes[k])) :
       ~ /\ Len(residents[areas_with_care_homes[k]]) < n_residents[areas_with_care_homes[k]]
         /\ SuperAreaTargets(sex).count[label] > 0
         /\ Sex(person) = sex
         /\ person \notin AllResidents
         /\ InBand(person, label)

\* C29: when the men's loop of a super area ends, no care home with a
\* vacancy, age range of the men with a positive target and man of the
\* care home's area in that age range who is not drawn are left together;
\* the same for the women when the women's loop ends, and for both sexes
\* when the super area is done.
LoopsEndWithNothingLeft ==
    /\ (pc = "while" /\ phase = "m" /\ ~men_left) => NothingLeftFor("m")
    /\ (pc = "while" /\ phase = "f" /\ ~women_left) => (NothingLeftFor("m") /\ NothingLeftFor("f"))
    /\ (pc = "done" /\ areas_with_care_homes # <<>>) => (NothingLeftFor("m") /\ NothingLeftFor("f"))
\* the women's loop has ended with a vacancy, a positive target and people
\* not drawn, which do not come together
WomenLoopEndedWithRest ==
    /\ pc = "while"
    /\ phase = "f"
    /\ ~women_left
    /\ \E k \in DOMAIN areas_with_care_homes :
          Len(residents[areas_with_care_homes[k]]) < n_residents[areas_with_care_homes[k]]
    /\ \E label \in Range(communal_women_sorted.keys) : communal_women_sorted.count[label] > 0
    /\ \E k \in DOMAIN areas_with_care_homes :
       \E person \in Range(PeopleOf(areas_with_care_homes[k])) :
          Sex(person) = "f" /\ person \notin AllResidents

\* a person whose age has an age group and an empty list of candidate schools
KidWithoutCandidates(position) ==
    /\ kpc = position
    /\ person_idx <= Len(area_people[area_idx])
    /\ KidAge(CurrentKid) \in DOMAIN closest_schools_by_age
    /\ closest_schools_by_age[KidAge(CurrentKid)] = <<>>

\* C26: a person whose age has an empty list of candidate schools is left
\* without a school by both steps: no school's students change, no error is
\* raised, and the walk goes on with the next person.
NoCandidatesNoSchool ==
    [][(KidWithoutCandidates("mandatory") \/ KidWithoutCandidates("non_mandatory")) =>
          /\ students' = students
          /\ kpc' = kpc
          /\ person_idx' = person_idx + 1]_vars

\* C27: the memo of an age is false when the area starts, becomes true only
\* in a step before which every one of the first min(N, len(candidates))
\* candidates of the age is full, never goes back to false during the area,
\* and once it is true a mandatory person of the age goes to one of the
\* candidates at random, whatever their vacancies.
MemoOnlyWhenAllFull ==
    [][/\ (kpc = "for_area" /\ kpc' = "mandatory") =>
             \A age \in DOMAIN is_school_full' : ~is_school_full'[age]
       /\ (kpc \in {"mandatory", "non_mandatory"}) =>
             \A age \in DOMAIN is_school_full :
                /\ is_school_full[age] => is_school_full'[age]
                /\ (~is_school_full[age] /\ is_school_full'[age]) =>
                      \A s \in Range(FirstCandidates(age)) : IsFull(s)
       /\ (KidAtHand("mandatory") /\ InMandatoryRange(KidAge(CurrentKid))
             /\ is_school_full[KidAge(CurrentKid)]) =>
             \E s \in Range(FirstCandidates(KidAge(CurrentKid))) :
                students' = [students EXCEPT ![s] = Append(@, CurrentKid)]
      ]_vars

\* the ids of the instances of a class, in creation order
IdsOf(cls) == SelectSeq(created, LAMBDA instance : instance[1] = cls)

\* C24: the k-th SuperStation has id k - 1 and the k-th Station has id
\* k - 1, two instances of one class never have the same id, and creating
\* an instance of one class does not move the id the other class hands out
\* next, however the creations are interleaved.
IdsPerClass ==
    /\ [](\A cls \in StationClasses : \A k \in DOMAIN IdsOf(cls) : IdsOf(cls)[k][2] = k - 1)
    /\ [](\A k, l \in DOMAIN created :
             (k # l /\ created[k][1] = created[l][1]) => created[k][2] # created[l][2])
    /\ [][\A cls \in StationClasses :
             (IdsOf(cls)' = IdsOf(cls)) => (NextId(cls)' = NextId(cls))]_vars
\* stations and super stations were created in turn
InterleavedCreations ==
    /\ Len(created) >= 4
    /\ created[1] = <<"Station", 0>>
    /\ created[2] = <<"SuperStation", 0>>
    /\ created[3] = <<"Station", 1>>
    /\ created[4] = <<"SuperStation", 1>>

\* the sector ids the distributor is configured with
ConfiguredLabels ==
    IF education_sector_label[1] = "list" THEN Range(education_sector_label[2])
    ELSE {education_sector_label[2]}
\* the schools a worker is a teacher of
TeacherOf(person) == {s \in TeacherSchools : person \in Range(school_teachers[s])}

\* C22: when the method has ended, every worker whose sector is one of the
\* configured labels and whose sub_sector is set is a teacher of exactly
\* the schools of one area that declare the sub_sector, of all schools of
\* the area when the sub_sector is "special_needs"; every other worker is a
\* teacher nowhere.
TeachersOfConfiguredSectors ==
    tpc = "done" =>
       \A person \in DOMAIN msoarea_workers :
          IF /\ msoarea_workers[person].sector[2] \in ConfiguredLabels
             /\ msoarea_workers[person].sub_sector # "None"
          THEN \E a \in DOMAIN AreasInMsoa :
                  TeacherOf(person) =
                     {s \in Range(AreasInMsoa[a]) :
                         \/ msoarea_workers[person].sub_sector \in SchoolSector(s)
                         \/ msoarea_workers[person].sub_sector = "special_needs"}
          ELSE TeacherOf(person) = {}

\* the two ages every label of the tables stands for
BoundsOf ==
    [label \in UNION {Range(t.keys) : t \in Tables \cup {ScenarioMen, ScenarioWomen}} |->
        ParseRange(label)]

\* the residents of the care homes of a super area who are of a sex and of
\* an age range; the age ranges of one table do not overlap, so these are
\* the people placed on account of the age range
PlacedFor(name, sex, label) ==
    {person \in UNION {Range(residents[a]) : a \in Range(AreasOf(name)) \cap CareHomeAreas} :
        /\ Sex(person) = sex
        /\ BoundsOf[label][1] <= Age(person)
        /\ Age(person) <= BoundsOf[label][2]}

\* C31: for every super area, sex and age range, the number of people the
\* call has placed on account of the age range, over all care homes of the
\* super area, is at most the count the distributor's table gives it.
PlacedWithinTarget ==
    [](\A name \in Range(super_areas) :
          /\ name \in DOMAIN communal_men_by_super_area =>
                \A label \in Range(communal_men_by_super_area[name].keys) :
                   Cardinality(PlacedFor(name, "m", label))
                      <= communal_men_by_super_area[name].count[label]
          /\ name \in DOMAIN communal_women_by_super_area =>
                \A label \in Range(communal_women_by_super_area[name].keys) :
                   Cardinality(PlacedFor(name, "f", label))
                      <= communal_women_by_super_area[name].count[label])
\* the call has ended with the men's target of super area "B" and a women's
\* target of super area "A" met in full
TargetsMetInFull ==
    /\ pc = "done"
    /\ Cardinality(PlacedFor("B", "m", Label(80, 89))) = 2
    /\ "A" \in DOMAIN communal_women_by_super_area
    /\ Label(75, 79) \in Range(communal_women_by_super_area["A"].keys)
    /\ Cardinality(PlacedFor("A", "f", Label(75, 79))) = 1

\* the area a person lives in
AreaOf(person) == Roster[person][1]

\* C32: every resident of a care home lives in the area of the care home,
\* and a person is placed in the men's loop only if a man, in the women's
\* loop only if a woman, on account of an age range of that sex's table.
PlacedAtHome ==
    /\ [](\A a \in CareHomeAreas : \A person \in Range(residents[a]) : AreaOf(person) = a)
    /\ [][residents' # residents =>
             \E person \in AllResidents' \ AllResidents :
                /\ Sex(person) = phase
                /\ residents' = [residents EXCEPT ![AreaOf(person)] = Append(@, person)]
                /\ InBand(person, CurrentLabel)
                /\ CurrentSorted'.count[CurrentLabel] = CurrentSorted.count[CurrentLabel] - 1
                /\ phase = "m" => communal_women_sorted' = communal_women_sorted
                /\ phase = "f" => communal_men_sorted' = communal_men_sorted]_vars
\* both super areas are done; men and women live in the care home of area 3
\* and the care homes of areas 1 and 2 have residents
MenAndWomenAtHome ==
    /\ pc = "done"
    /\ Len(super_areas) = 2
    /\ residents[1] # <<>>
    /\ residents[2] # <<>>
    /\ \E person \in Range(residents[3]) : Sex(person) = "m"
    /\ \E person \in Range(residents[3]) : Sex(person) = "f"

\* C33: no step of the call changes the distributor's tables of men and
\* women, the people list of an area or the capacity of a care home; the
\* counts are taken off the working tables of the super area only, and the
\* people lists are those the call was entered with.
InputsLeftAlone ==
    /\ [][/\ communal_men_by_super_area' = communal_men_by_super_area
          /\ communal_women_by_super_area' = communal_women_by_super_area
          /\ people_by_area' = people_by_area
          /\ n_residents' = n_residents]_vars
    /\ [](\A a \in DOMAIN people_by_area : people_by_area[a] = PeopleOf(a))
\* the call has ended after it took counts off both working tables
DoneWithCountsTakenOff ==
    /\ pc = "done"
    /\ super_areas = <<"A", "B">>
    /\ communal_men_sorted.count[Label(80, 89)] = 0
    /\ communal_men_by_super_area["B"].count[Label(80, 89)] = 2
    /\ communal_women_sorted.count[Label(70, 79)] < 2
    /\ residents[1] # <<>>

\* C34: a + b yields a collection whose members are those of a followed by
\* those of b, both operands keep the members they had, and when the result
\* has a ball tree a get_closest_station on it can come back with any of
\* its members.
SumKeepsOperands ==
    [][last_add' # last_add =>
          /\ collections'[last_add'.result].members =
                last_add'.left_members \o last_add'.right_members
          /\ collections'[last_add'.left].members = last_add'.left_members
          /\ collections'[last_add'.right].members = last_add'.right_members
          /\ collections'[last_add'.result].ball_tree # <<>> =>
                Considered(collections'[last_add'.result])
                   = Range(collections'[last_add'.result].members)]_vars

\* C35: no worker is a teacher of two schools, a worker with the sub_sector
\* "special_needs" included, and n_teachers of a school is the number of
\* teachers added to it.
OneSchoolPerTeacher ==
    tpc \in {"for_teacher", "done"} =>
       /\ \A person \in DOMAIN msoarea_workers : Cardinality(TeacherOf(person)) <= 1
       /\ \A s \in TeacherSchools : n_teachers[s] = Len(school_teachers[s])
====
